---- MODULE Spec2Model ----
(***************************************************************************)
(* Model of the Slurm credential interface (cred.c): job/step credentials  *)
(* and sbcast credentials with the anti-replay cache.                      *)
(*                                                                         *)
(* Conventions: a C pointer that may be NULL is a sequence of length 0     *)
(* (NULL) or 1 (the object); a C string or array is a sequence of numbers  *)
(* and NULL is <<>>; a packed buffer is a sequence of 32-bit words.        *)
(***************************************************************************)
EXTENDS Integers, Sequences, FiniteSets, TLC

VARIABLES
    now,                \* time(NULL)
    aborted,            \* the process died on a failed xassert()
    g_context,          \* plugin handle: TRUE when loaded
    cred_restart_time,
    cred_expire,
    enable_nss_slurm,
    enable_send_gids,
    sbcast_cache_list,  \* [alloc |-> BOOLEAN, recs |-> Seq(struct sbcast_cache)]
    credential,         \* NULL or the live slurm_cred_t
    wire,               \* the buffer slurm_cred_pack() wrote, as sent to the node
    made,               \* history: what the live controller credential was created from
    sbcast_cred,        \* NULL or the live sbcast_cred_t
    swire,              \* the buffer pack_sbcast_cred() wrote
    seeded,             \* history: a cache record was appended for the packed credential
    char_signed,        \* the build: whether plain char is signed
    slurm_conf,         \* the configuration read at start-up: authinfo, launch_params
    pc,                 \* per thread: the call it is in and where
    wrlock,             \* the thread holding cred->mutex for writing, or 0
    freed,              \* the parts of the credential slurm_cred_destroy freed
    races,              \* history: reads of a part that was already freed
    g_context_lock,     \* the thread holding g_context_lock, or 0
    sem1,               \* container_p_create: value of the semaphore the child posts
    sem2,               \* value of the semaphore the parent posts
    parent,             \* where the caller of container_p_create is
    child,              \* where the forked child is
    rc,                 \* the parent's rc
    child_rc,           \* the child's rc, its exit status once it has exited
    job_mount,          \* the job's mount directory
    done,               \* history: the namespace steps attempted so far
    returned,           \* NULL, or what container_p_create returned
    last                \* the last call: its name, inputs and what it returned

vars == <<now, aborted, g_context, cred_restart_time, cred_expire,
          enable_nss_slurm, enable_send_gids, sbcast_cache_list, credential,
          wire, made, sbcast_cred, swire, seeded, char_signed, slurm_conf, pc,
          wrlock, freed, races, g_context_lock, sem1, sem2, parent, child, rc,
          child_rc, job_mount, done, returned, last>>

confVars == <<g_context, cred_restart_time, cred_expire, enable_nss_slurm,
              enable_send_gids, char_signed, slurm_conf>>
jobVars == <<credential, wire, made>>
sbVars == <<sbcast_cred, swire, seeded>>
nsVars == <<sem1, sem2, parent, child, rc, child_rc, job_mount, done,
            returned>>
threadVars == <<pc, wrlock, freed, races, g_context_lock, nsVars>>

(***************************************************************************)
(* Bounds of the model.                                                    *)
(***************************************************************************)
EarlyTimes == 1
LateTimes == 2
MaxReaders == 1
MaxCache == 2
MaxSbTime == 2
MaxThreads == 3

(***************************************************************************)
(* Program constants.                                                      *)
(***************************************************************************)
DEFAULT_EXPIRATION_WINDOW == 120
SLURM_AUTH_NOBODY == 99
CRED_MAGIC == 723723
SLURM_MIN_PROTOCOL_VERSION == 1
SLURM_PROTOCOL_VERSION == 2
FILE_BCAST_SO == 4
MIN_CRED_EXPIRE == 5
\* 0xfffffffb, as the 32-bit pattern read as a signed number
SLURM_BATCH_SCRIPT == -5

NULL == <<>>

RECURSIVE SumTo(_, _)
SumTo(s, n) == IF n = 0 THEN 0 ELSE s[n] + SumTo(s, n - 1)

SumSeq(s) == SumTo(s, Len(s))


(***************************************************************************)
(* Typed byte buffer primitives (pack.h), one sequence element per word.   *)
(***************************************************************************)
pack32(x) == <<x>>

pack_time(t) == <<t>>

\* packstr / pack32_array: a length word, then the elements
packstr(str) == <<Len(str)>> \o str

pack32_array(arr) == <<Len(arr)>> \o arr

Slice(buf, from, n) == [k \in 1..n |-> buf[from + k - 1]]

(***************************************************************************)
(* The signing backend (plugin): sign / verify_sign.                       *)
(***************************************************************************)
RECURSIVE WeightedSum(_, _)
WeightedSum(buf, n) == IF n = 0 THEN 0 ELSE n * buf[n] + WeightedSum(buf, n - 1)

\* cred_p_sign: a keyed digest of the bytes, rendered as a printable string
\* of three characters
cred_sign(buf) ==
    <<65 + (SumSeq(buf) % 7), 97 + (WeightedSum(buf, Len(buf)) % 5), 48>>

cred_verify_sign(buf, signature) == signature = cred_sign(buf)

(***************************************************************************)
(* Job credential arguments.                                               *)
(***************************************************************************)
IdCode(id) == CASE id = "none" -> 0 [] id = "caller" -> 1 [] id = "fetched" -> 2

IdOf(code) == CASE code = 0 -> "none" [] code = 1 -> "caller" [] OTHER -> "fetched"

\* the loop of slurm_cred_create over sock_core_rep_count: the value of i
\* when the loop is left
RECURSIVE SockRecsLoop(_, _, _, _)
SockRecsLoop(rep, job_nhosts, i, sock_recs) ==
    IF i >= job_nhosts THEN i
    ELSE IF sock_recs + rep[i + 1] >= job_nhosts THEN i
    ELSE SockRecsLoop(rep, job_nhosts, i + 1, sock_recs + rep[i + 1])

\* (a variant that takes the length of the whole array)
core_array_size_whole(arg) ==
    IF arg.sock_core_rep_count # NULL
    THEN Len(arg.sock_core_rep_count)
    ELSE 0

core_array_size(arg) ==
    IF arg.sock_core_rep_count # NULL
    THEN SockRecsLoop(arg.sock_core_rep_count, arg.job_nhosts, 0, 0) + 1
    ELSE 0

\* the entries sock_core_rep_count[i] (indices from 0, as in the code) that
\* the loop of slurm_cred_create reads
RECURSIVE SockRecsRead(_, _, _, _)
SockRecsRead(rep, job_nhosts, i, sock_recs) ==
    IF i >= job_nhosts THEN {}
    ELSE IF sock_recs + rep[i + 1] >= job_nhosts THEN {i}
    ELSE {i} \cup SockRecsRead(rep, job_nhosts, i + 1, sock_recs + rep[i + 1])

\* cred_pack of the backend: the argument bundle at one protocol version
cred_pack(arg, ctime, protocol_version) ==
    IF protocol_version >= SLURM_PROTOCOL_VERSION
    THEN pack_time(ctime) \o pack32(arg.uid) \o pack32(arg.gid)
         \o pack32(arg.job_id) \o pack32(arg.job_nhosts)
         \o pack32(arg.core_array_size)
         \o pack32_array(arg.sock_core_rep_count) \o pack32(IdCode(arg.id))
    ELSE IF protocol_version >= SLURM_MIN_PROTOCOL_VERSION
    THEN pack_time(ctime) \o pack32(arg.uid) \o pack32(arg.gid)
         \o pack32(arg.job_id) \o pack32(IdCode(arg.id))
         \o pack32(arg.job_nhosts) \o pack32(arg.core_array_size)
         \o pack32_array(arg.sock_core_rep_count)
    ELSE <<>>

\* slurm_cred_alloc(alloc_arg)
slurm_cred_alloc(alloc_arg) ==
    [arg |-> IF alloc_arg
             THEN <<[uid |-> SLURM_AUTH_NOBODY, gid |-> SLURM_AUTH_NOBODY,
                     job_id |-> 0, id |-> "none", job_nhosts |-> 0,
                     sock_core_rep_count |-> NULL, core_array_size |-> 0]>>
             ELSE NULL,
     ctime |-> 0, verified |-> FALSE, buffer |-> NULL, buf_version |-> 0,
     signature |-> NULL, magic |-> CRED_MAGIC, readers |-> 0]

\* cred_p_create of the backend: pack, optionally sign, stamp ctime
cred_p_create(arg, sign_it, protocol_version, t) ==
    LET body == cred_pack(arg, t, protocol_version)
        sig == IF sign_it THEN cred_sign(body) ELSE NULL
    IN  [slurm_cred_alloc(FALSE) EXCEPT
            !.arg = <<arg>>, !.ctime = t,
            !.buffer = body \o packstr(sig),
            !.buf_version = protocol_version, !.signature = sig]

\* the fixed words of a packed credential, then the array, then the signature
FixedWords(protocol_version) ==
    IF protocol_version >= SLURM_PROTOCOL_VERSION THEN 6 ELSE 7

\* cred_p_unpack of the backend: decode, then verify the signature
cred_p_unpack(buffer, protocol_version) ==
    LET fw == FixedWords(protocol_version)
        cur == protocol_version >= SLURM_PROTOCOL_VERSION
    IN  IF protocol_version < SLURM_MIN_PROTOCOL_VERSION \/ Len(buffer) < fw + 1
        THEN NULL
        ELSE LET n == buffer[fw + 1]
                 tail == IF cur THEN 1 ELSE 0
                 sigpos == fw + 1 + n + tail + 1
             IN  IF Len(buffer) < sigpos \/ Len(buffer) # sigpos + buffer[sigpos]
                 THEN NULL
                 ELSE LET body == Slice(buffer, 1, sigpos - 1)
                          sig == Slice(buffer, sigpos + 1, buffer[sigpos])
                          o == IF cur THEN 0 ELSE 1
                          arg == [uid |-> buffer[2], gid |-> buffer[3],
                                  job_id |-> buffer[4],
                                  id |-> IdOf(IF cur THEN buffer[fw + 1 + n + 1]
                                              ELSE buffer[5]),
                                  job_nhosts |-> buffer[5 + o],
                                  core_array_size |-> buffer[6 + o],
                                  sock_core_rep_count |-> Slice(buffer, fw + 2, n)]
                      IN  <<[slurm_cred_alloc(FALSE) EXCEPT
                                !.arg = <<arg>>, !.ctime = buffer[1],
                                !.buffer = buffer,
                                !.buf_version = protocol_version,
                                !.signature = sig,
                                !.verified = cred_verify_sign(body, sig)]>>


(***************************************************************************)
(* slurm_cred_create: what it returns, what it leaves in the caller's arg, *)
(* whether it reached the backend's cred_create.                           *)
\* (a variant that does not test the gid)
slurm_cred_create_no_gid_check(arg, sign_it, protocol_version, fetch_ok, backend_ok, t, send_gids) ==
    IF arg.uid = SLURM_AUTH_NOBODY
    THEN [cred |-> NULL, arg |-> arg, backend |-> FALSE]
    ELSE LET sized == [arg EXCEPT !.core_array_size = core_array_size(arg)]
             release_id == sized.id = "none"
                           /\ (enable_nss_slurm \/ send_gids)
             given == IF release_id /\ fetch_ok
                      THEN [sized EXCEPT !.id = "fetched"]
                      ELSE sized
         IN  [cred |-> IF backend_ok
                       THEN <<cred_p_create(given, sign_it, protocol_version,
                                            t)>>
                       ELSE NULL,
              arg |-> sized, backend |-> TRUE]

\* (a variant that leaves the fetched identity in the caller's arg)
slurm_cred_create_keep_id(arg, sign_it, protocol_version, fetch_ok, backend_ok, t, send_gids) ==
    IF arg.uid = SLURM_AUTH_NOBODY \/ arg.gid = SLURM_AUTH_NOBODY
    THEN [cred |-> NULL, arg |-> arg, backend |-> FALSE]
    ELSE LET sized == [arg EXCEPT !.core_array_size = core_array_size(arg)]
             release_id == sized.id = "none"
                           /\ (enable_nss_slurm \/ send_gids)
         IN  IF release_id /\ ~fetch_ok
             THEN [cred |-> NULL, arg |-> sized, backend |-> FALSE]
             ELSE LET given == IF release_id
                               THEN [sized EXCEPT !.id = "fetched"]
                               ELSE sized
                  IN  [cred |-> IF backend_ok
                                THEN <<cred_p_create(given, sign_it,
                                                     protocol_version, t)>>
                                ELSE NULL,
                       arg |-> given, backend |-> TRUE]

\* (a variant that releases the fetched identity before the backend call)
slurm_cred_create_early_release(arg, sign_it, protocol_version, fetch_ok, backend_ok, t, send_gids) ==
    IF arg.uid = SLURM_AUTH_NOBODY \/ arg.gid = SLURM_AUTH_NOBODY
    THEN [cred |-> NULL, arg |-> arg, backend |-> FALSE]
    ELSE LET sized == [arg EXCEPT !.core_array_size = core_array_size(arg)]
             release_id == sized.id = "none"
                           /\ (enable_nss_slurm \/ send_gids)
         IN  IF release_id /\ ~fetch_ok
             THEN [cred |-> NULL, arg |-> sized, backend |-> FALSE]
             ELSE [cred |-> IF backend_ok
                            THEN <<cred_p_create(sized, sign_it,
                                                 protocol_version, t)>>
                            ELSE NULL,
                   arg |-> sized, backend |-> TRUE]

(***************************************************************************)
slurm_cred_create(arg, sign_it, protocol_version, fetch_ok, backend_ok, t, send_gids) ==
    IF arg.uid = SLURM_AUTH_NOBODY
    THEN [cred |-> NULL, arg |-> arg, backend |-> FALSE]
    ELSE IF arg.gid = SLURM_AUTH_NOBODY
    THEN [cred |-> NULL, arg |-> arg, backend |-> FALSE]
    ELSE LET sized == [arg EXCEPT !.core_array_size = core_array_size(arg)]
             release_id == sized.id = "none"
                           /\ (enable_nss_slurm \/ send_gids)
         IN  IF release_id /\ ~fetch_ok
             THEN [cred |-> NULL, arg |-> sized, backend |-> FALSE]
             ELSE LET given == IF release_id
                               THEN [sized EXCEPT !.id = "fetched"]
                               ELSE sized
                  IN  [cred |-> IF backend_ok
                                THEN <<cred_p_create(given, sign_it,
                                                     protocol_version, t)>>
                                ELSE NULL,
                       arg |-> IF release_id
                               THEN [given EXCEPT !.id = "none"]
                               ELSE given,
                       backend |-> TRUE]

(***************************************************************************)
(* slurm_cred_verify: the error label (save errno, unlock, restore errno)  *)
(* and the whole function.  unlock_errno is what errno holds after         *)
(* slurm_rwlock_unlock().                                                  *)
(***************************************************************************)
\* (a variant that returns without restoring the errno it saved)
verify_error_no_restore(locked, set_errno, unlock_errno) ==
    [ret |-> NULL,
     errno |-> IF unlock_errno = "unchanged" THEN set_errno ELSE unlock_errno,
     readers |-> locked.readers - 1]

verify_error(locked, set_errno, unlock_errno) ==
    LET errnum == set_errno
        unlocked == [locked EXCEPT !.readers = @ - 1]
    IN  [ret |-> NULL, errno |-> errnum, readers |-> unlocked.readers]

\* (a variant that tests the expiry with >= in place of >)
slurm_cred_verify_ge(cred, t, unlock_errno) ==
    LET locked == [cred EXCEPT !.readers = @ + 1]
    IN  IF ~locked.verified
        THEN verify_error(locked, "ESLURMD_INVALID_JOB_CREDENTIAL",
                          unlock_errno)
        ELSE IF t >= locked.ctime + cred_expire
        THEN verify_error(locked, "ESLURMD_CREDENTIAL_EXPIRED", unlock_errno)
        ELSE [ret |-> locked.arg, errno |-> "unchanged",
              readers |-> locked.readers]

\* (a variant that tests the expiry before the verified flag)
slurm_cred_verify_expiry_first(cred, t, unlock_errno) ==
    LET locked == [cred EXCEPT !.readers = @ + 1]
    IN  IF t > locked.ctime + cred_expire
        THEN verify_error(locked, "ESLURMD_CREDENTIAL_EXPIRED", unlock_errno)
        ELSE IF ~locked.verified
        THEN verify_error(locked, "ESLURMD_INVALID_JOB_CREDENTIAL",
                          unlock_errno)
        ELSE [ret |-> locked.arg, errno |-> "unchanged",
              readers |-> locked.readers]

slurm_cred_verify(cred, t, unlock_errno) ==
    LET locked == [cred EXCEPT !.readers = @ + 1]
    IN  IF ~locked.verified
        THEN verify_error(locked, "ESLURMD_INVALID_JOB_CREDENTIAL",
                          unlock_errno)
        ELSE IF t > locked.ctime + cred_expire
        THEN verify_error(locked, "ESLURMD_CREDENTIAL_EXPIRED", unlock_errno)
        ELSE [ret |-> locked.arg, errno |-> "unchanged",
              readers |-> locked.readers]

\* (a variant that packs the arg bundle afresh instead of copying the cache)
slurm_cred_pack_repack(cred, buffer, protocol_version) ==
    buffer \o cred_pack(cred.arg[1], cred.ctime, protocol_version)
           \o packstr(cred.signature)

\* slurm_cred_pack: packbuf() appends the cached bytes to the output buffer
slurm_cred_pack(cred, buffer, protocol_version) == buffer \o cred.buffer

\* slurm_cred_get_signature: xstrdup(cred->signature)
slurm_cred_get_signature(cred) == cred.signature


(***************************************************************************)
(* Inputs.                                                                 *)
(***************************************************************************)
\* AuthInfo: no cred_expire= token, or the number after it
AuthInfos == {NULL, <<3>>, <<5>>}

ProtocolVersions == {SLURM_MIN_PROTOCOL_VERSION, SLURM_PROTOCOL_VERSION}

\* what errno may hold after slurm_rwlock_unlock() returns
UnlockErrnos == {"unchanged", "EOTHER"}

\* the instants at which the model looks at the clock: a few from start-up
\* on, and a few that lie a minimal expiration window later
Times ==
    (1..EarlyTimes) \cup ((MIN_CRED_EXPIRE + 1)..(MIN_CRED_EXPIRE + LateTimes))

\* the threads of the process, and a thread that is in no call
Threads == 1..MaxThreads

Idle == [op |-> "none", at |-> "idle", locked |-> FALSE]

(***************************************************************************)
(* Initial state: the static initialisers of cred.c, no credential yet,    *)
(* and no job container being created.                                     *)
(***************************************************************************)
\* container_p_create has not been called
NsInit ==
    /\ sem1 = 0
    /\ sem2 = 0
    /\ parent = "idle"
    /\ child = "none"
    /\ rc = 0
    /\ child_rc = 0
    /\ job_mount = "absent"
    /\ done = {}
    /\ returned = NULL

Init ==
    /\ now = 1
    /\ aborted = FALSE
    /\ g_context = FALSE
    /\ cred_restart_time = 0
    /\ cred_expire = DEFAULT_EXPIRATION_WINDOW
    /\ enable_nss_slurm = FALSE
    /\ enable_send_gids = TRUE
    /\ sbcast_cache_list = [alloc |-> FALSE, recs |-> <<>>]
    /\ credential = NULL
    /\ wire = NULL
    /\ made = NULL
    /\ sbcast_cred = NULL
    /\ swire = NULL
    /\ seeded = FALSE
    /\ char_signed = TRUE
    /\ slurm_conf = [authinfo |-> NULL, launch_params |-> {}]
    /\ pc = [t \in Threads |-> Idle]
    /\ wrlock = 0
    /\ g_context_lock = 0
    /\ NsInit
    /\ freed = {}
    /\ races = {}
    /\ last = [op |-> "none"]

\* time passes, to the next instant of `times`; the daemon has initialised
\* the interface at start-up
Tick(times) ==
    /\ ~aborted
    /\ cred_restart_time # 0
    /\ \E t \in times : /\ t > now
                        /\ \A u \in times : u > now => t <= u
                        /\ now' = t
    /\ UNCHANGED <<threadVars, aborted, confVars, sbcast_cache_list, jobVars, sbVars,
                   last>>

\* a failed xassert(), or a call through an unloaded plugin, ends the process
Abort(op) ==
    /\ aborted' = TRUE
    /\ last' = [op |-> "abort", of |-> op]
    /\ UNCHANGED <<threadVars, now, confVars, sbcast_cache_list, jobVars, sbVars>>

(***************************************************************************)
(* cred_g_init / cred_g_fini                                               *)
(***************************************************************************)
\* cred_g_init without the test cred_expire < 5
cred_g_init_no_min(authinfo, launch_params, plugin_ok) ==
    /\ ~aborted
    /\ cred_expire' =
          IF authinfo # NULL THEN authinfo[1] ELSE cred_expire
    /\ enable_nss_slurm' =
          IF "enable_nss_slurm" \in launch_params THEN TRUE
          ELSE enable_nss_slurm
    /\ enable_send_gids' =
          IF "enable_nss_slurm" \notin launch_params
             /\ "disable_send_gids" \in launch_params
          THEN FALSE
          ELSE enable_send_gids
    /\ cred_restart_time' =
          IF cred_restart_time = 0 THEN now ELSE cred_restart_time
    /\ UNCHANGED <<char_signed, slurm_conf>>
    /\ IF g_context
       THEN /\ UNCHANGED <<g_context, sbcast_cache_list>>
            /\ last' = [op |-> "init", authinfo |-> authinfo,
                        launch_params |-> launch_params,
                        ret |-> "SLURM_SUCCESS"]
       ELSE IF ~plugin_ok
       THEN /\ UNCHANGED <<g_context, sbcast_cache_list>>
            /\ last' = [op |-> "init", authinfo |-> authinfo,
                        launch_params |-> launch_params,
                        ret |-> "SLURM_ERROR"]
       ELSE /\ g_context' = TRUE
            /\ sbcast_cache_list' = [alloc |-> TRUE, recs |-> <<>>]
            /\ last' = [op |-> "init", authinfo |-> authinfo,
                        launch_params |-> launch_params,
                        ret |-> "SLURM_SUCCESS"]
    /\ UNCHANGED <<threadVars, now, aborted, jobVars, sbVars>>

\* cred_g_init taking the time whenever the backend is not loaded
cred_g_init_restart_on_load(authinfo, launch_params, plugin_ok) ==
    /\ ~aborted
    /\ cred_expire' =
          IF authinfo # NULL
          THEN IF authinfo[1] < MIN_CRED_EXPIRE
               THEN DEFAULT_EXPIRATION_WINDOW
               ELSE authinfo[1]
          ELSE cred_expire
    /\ enable_nss_slurm' =
          IF "enable_nss_slurm" \in launch_params THEN TRUE
          ELSE enable_nss_slurm
    /\ enable_send_gids' =
          IF "enable_nss_slurm" \notin launch_params
             /\ "disable_send_gids" \in launch_params
          THEN FALSE
          ELSE enable_send_gids
    /\ cred_restart_time' =
          IF ~g_context THEN now ELSE cred_restart_time
    /\ UNCHANGED <<char_signed, slurm_conf>>
    /\ IF g_context
       THEN /\ UNCHANGED <<g_context, sbcast_cache_list>>
            /\ last' = [op |-> "init", authinfo |-> authinfo,
                        launch_params |-> launch_params,
                        ret |-> "SLURM_SUCCESS"]
       ELSE IF ~plugin_ok
       THEN /\ UNCHANGED <<g_context, sbcast_cache_list>>
            /\ last' = [op |-> "init", authinfo |-> authinfo,
                        launch_params |-> launch_params,
                        ret |-> "SLURM_ERROR"]
       ELSE /\ g_context' = TRUE
            /\ sbcast_cache_list' = [alloc |-> TRUE, recs |-> <<>>]
            /\ last' = [op |-> "init", authinfo |-> authinfo,
                        launch_params |-> launch_params,
                        ret |-> "SLURM_SUCCESS"]
    /\ UNCHANGED <<threadVars, now, aborted, jobVars, sbVars>>

cred_g_init(authinfo, launch_params, plugin_ok) ==
    /\ ~aborted
    /\ cred_expire' =
          IF authinfo # NULL
          THEN IF authinfo[1] < MIN_CRED_EXPIRE
               THEN DEFAULT_EXPIRATION_WINDOW
               ELSE authinfo[1]
          ELSE cred_expire
    /\ enable_nss_slurm' =
          IF "enable_nss_slurm" \in launch_params THEN TRUE
          ELSE enable_nss_slurm
    /\ enable_send_gids' =
          IF "enable_nss_slurm" \notin launch_params
             /\ "disable_send_gids" \in launch_params
          THEN FALSE
          ELSE enable_send_gids
    /\ cred_restart_time' =
          IF cred_restart_time = 0 THEN now ELSE cred_restart_time
    /\ UNCHANGED <<char_signed, slurm_conf>>
    /\ IF g_context
       THEN /\ UNCHANGED <<g_context, sbcast_cache_list>>
            /\ last' = [op |-> "init", authinfo |-> authinfo,
                        launch_params |-> launch_params,
                        ret |-> "SLURM_SUCCESS"]
       ELSE IF ~plugin_ok
       THEN /\ UNCHANGED <<g_context, sbcast_cache_list>>
            /\ last' = [op |-> "init", authinfo |-> authinfo,
                        launch_params |-> launch_params,
                        ret |-> "SLURM_ERROR"]
       ELSE /\ g_context' = TRUE
            /\ sbcast_cache_list' = [alloc |-> TRUE, recs |-> <<>>]
            /\ last' = [op |-> "init", authinfo |-> authinfo,
                        launch_params |-> launch_params,
                        ret |-> "SLURM_SUCCESS"]
    /\ UNCHANGED <<threadVars, now, aborted, jobVars, sbVars>>

\* cred_g_fini without FREE_NULL_LIST(sbcast_cache_list)
cred_g_fini_keep_cache(destroy_ok) ==
    /\ ~aborted
    /\ IF ~g_context
       THEN /\ UNCHANGED g_context
            /\ last' = [op |-> "fini", ret |-> "SLURM_SUCCESS"]
       ELSE /\ g_context' = FALSE
            /\ last' = [op |-> "fini",
                        ret |-> IF destroy_ok THEN "SLURM_SUCCESS"
                                ELSE "SLURM_ERROR"]
    /\ UNCHANGED <<threadVars, now, aborted, cred_restart_time, cred_expire,
                   enable_nss_slurm, enable_send_gids, char_signed, slurm_conf,
                   sbcast_cache_list, jobVars, sbVars>>

cred_g_fini(destroy_ok) ==
    /\ ~aborted
    /\ IF ~g_context
       THEN /\ UNCHANGED <<g_context, sbcast_cache_list>>
            /\ last' = [op |-> "fini", ret |-> "SLURM_SUCCESS"]
       ELSE /\ sbcast_cache_list' = [alloc |-> FALSE, recs |-> <<>>]
            /\ g_context' = FALSE
            /\ last' = [op |-> "fini",
                        ret |-> IF destroy_ok THEN "SLURM_SUCCESS"
                                ELSE "SLURM_ERROR"]
    /\ UNCHANGED <<threadVars, now, aborted, cred_restart_time, cred_expire,
                   enable_nss_slurm, enable_send_gids, char_signed, slurm_conf,
                   jobVars,
                   sbVars>>

(***************************************************************************)
(* Job credential operations.  One credential object is live at a time and *)
(* one packed credential is in flight at a time.                           *)
(***************************************************************************)
CredCreated(arg, sign_it, protocol_version, enrich, r) ==
    /\ credential' = r.cred
    /\ made' = IF r.cred = NULL THEN NULL
               ELSE <<[by |-> "create", arg_in |-> arg, arg_out |-> r.arg,
                       sign_it |-> sign_it, enrich |-> enrich,
                       protocol_version |-> protocol_version,
                       cred |-> r.cred[1]]>>
    /\ last' = [op |-> "create", arg |-> arg, sign_it |-> sign_it,
                protocol_version |-> protocol_version,
                ret |-> r.cred, arg_out |-> r.arg, backend |-> r.backend]

CredCreate(arg, sign_it, protocol_version, fetch_ok, backend_ok) ==
    /\ ~aborted
    /\ credential = NULL
    /\ wire = NULL
    /\ LET r == slurm_cred_create(arg, sign_it, protocol_version, fetch_ok,
                                  backend_ok, now, enable_send_gids)
       IN  \/ ~g_context /\ Abort("slurm_cred_create")
           \/ /\ g_context \/ ~r.backend
              /\ CredCreated(arg, sign_it, protocol_version,
                             enable_nss_slurm \/ enable_send_gids, r)
              /\ UNCHANGED <<threadVars, now, aborted, confVars, sbcast_cache_list, wire,
                             sbVars>>

\* slurm_cred_faker: forces enable_send_gids on, then creates
CredFaker(arg, fetch_ok, backend_ok) ==
    /\ ~aborted
    /\ credential = NULL
    /\ wire = NULL
    /\ LET r == slurm_cred_create(arg, TRUE, SLURM_PROTOCOL_VERSION, fetch_ok,
                                  backend_ok, now, TRUE)
       IN  /\ g_context \/ ~r.backend
           /\ enable_send_gids' = TRUE
           /\ CredCreated(arg, TRUE, SLURM_PROTOCOL_VERSION, TRUE, r)
           /\ UNCHANGED <<threadVars, now, aborted, g_context, cred_restart_time,
                          cred_expire, enable_nss_slurm, char_signed, slurm_conf,
                          sbcast_cache_list, wire, sbVars>>

\* slurm_cred_alloc, as the backend and tests call it
CredAlloc(alloc_arg) ==
    /\ ~aborted
    /\ credential = NULL
    /\ wire = NULL
    /\ credential' = <<slurm_cred_alloc(alloc_arg)>>
    /\ last' = [op |-> "alloc", ret |-> credential']
    /\ UNCHANGED <<threadVars, now, aborted, confVars, sbcast_cache_list, wire, made,
                   sbVars>>

CredGetArgs ==
    /\ ~aborted
    /\ credential # NULL
    /\ credential[1].readers < MaxReaders
    /\ credential' = <<[credential[1] EXCEPT !.readers = @ + 1]>>
    /\ last' = [op |-> "get_args", ret |-> credential[1].arg]
    /\ UNCHANGED <<threadVars, now, aborted, confVars, sbcast_cache_list, wire, made,
                   sbVars>>

CredUnlockArgs ==
    /\ ~aborted
    /\ credential # NULL
    /\ credential[1].readers > 0
    /\ credential' = <<[credential[1] EXCEPT !.readers = @ - 1]>>
    /\ last' = [op |-> "unlock_args"]
    /\ UNCHANGED <<threadVars, now, aborted, confVars, sbcast_cache_list, wire, made,
                   sbVars>>

CredVerify(unlock_errno) ==
    /\ ~aborted
    /\ credential # NULL
    /\ credential[1].readers < MaxReaders
    /\ \/ ~g_context /\ Abort("slurm_cred_verify")
       \/ LET cred == credential[1]
              r == slurm_cred_verify(cred, now, unlock_errno)
          IN  /\ credential' = <<[cred EXCEPT !.readers = r.readers]>>
              /\ last' = [op |-> "verify", cred |-> cred, now |-> now,
                          cred_expire |-> cred_expire, ret |-> r.ret,
                          errno |-> r.errno, readers |-> r.readers]
              /\ UNCHANGED <<threadVars, now, aborted, confVars, sbcast_cache_list, wire,
                             made, sbVars>>

\* slurm_cred_destroy: the write lock is granted once no reader holds the lock
CredDestroy ==
    /\ ~aborted
    /\ credential # NULL
    /\ credential[1].readers = 0
    /\ credential' = NULL
    /\ made' = NULL
    /\ last' = [op |-> "destroy"]
    /\ UNCHANGED <<threadVars, now, aborted, confVars, sbcast_cache_list, wire, sbVars>>

CredGetSignature ==
    /\ ~aborted
    /\ credential # NULL
    /\ last' = [op |-> "get_signature", cred |-> credential[1],
                ret |-> slurm_cred_get_signature(credential[1])]
    /\ UNCHANGED <<threadVars, now, aborted, confVars, sbcast_cache_list, jobVars, sbVars>>

\* slurm_cred_pack into a fresh buffer, which is then sent
CredPack(protocol_version) ==
    /\ ~aborted
    /\ credential # NULL
    /\ LET cred == credential[1]
       IN  \/ /\ cred.buffer = NULL \/ cred.buf_version # protocol_version
              /\ Abort("slurm_cred_pack")
           \/ /\ cred.buffer # NULL
              /\ wire' = <<[bytes |-> slurm_cred_pack(cred, <<>>,
                                                      protocol_version),
                            made |-> made, tampered |-> FALSE]>>
              /\ last' = [op |-> "pack", cred |-> cred,
                          protocol_version |-> protocol_version,
                          out |-> wire'[1].bytes]
              /\ UNCHANGED <<threadVars, now, aborted, confVars, sbcast_cache_list,
                             credential, made, sbVars>>

\* slurm_cred_unpack of the bytes received: delegated to the backend
CredUnpack(protocol_version) ==
    /\ ~aborted
    /\ wire # NULL
    /\ credential = NULL
    /\ \/ ~g_context /\ Abort("slurm_cred_unpack")
       \/ /\ g_context
          /\ credential' = cred_p_unpack(wire[1].bytes, protocol_version)
          /\ last' = [op |-> "unpack", wire |-> wire[1],
                      protocol_version |-> protocol_version,
                      ret |-> credential']
          /\ wire' = NULL
          /\ made' = IF credential' = NULL THEN NULL
                     ELSE <<[by |-> "unpack", cred |-> credential'[1]]>>
          /\ UNCHANGED <<threadVars, now, aborted, confVars, sbcast_cache_list, sbVars>>

\* a caller holding the read lock writes through the arg pointer it was given
CredMutateArg(uid) ==
    /\ ~aborted
    /\ credential # NULL
    /\ credential[1].readers > 0
    /\ credential[1].arg # NULL
    /\ credential[1].arg[1].uid # uid
    /\ credential' = <<[credential[1] EXCEPT !.arg[1].uid = uid]>>
    /\ last' = [op |-> "mutate_arg"]
    /\ UNCHANGED <<threadVars, now, aborted, confVars, sbcast_cache_list, wire, made,
                   sbVars>>

\* the network: a packed credential is altered in flight (its uid word)
WireTamper(uid) ==
    /\ ~aborted
    /\ wire # NULL
    /\ ~wire[1].tampered
    /\ wire[1].bytes[2] # uid
    /\ wire' = <<[wire[1] EXCEPT !.bytes[2] = uid, !.tampered = TRUE]>>
    /\ last' = [op |-> "tamper"]
    /\ UNCHANGED <<threadVars, now, aborted, confVars, sbcast_cache_list, credential,
                   made, sbVars>>

(***************************************************************************)
(* Spec: the job credential life cycle with the clock running past the     *)
(* expiration window.                                                      *)
(***************************************************************************)
LifeArgs ==
    [uid : {SLURM_AUTH_NOBODY, 1000}, gid : {SLURM_AUTH_NOBODY, 1000},
     job_id : {42}, id : {"none"}, job_nhosts : {2},
     sock_core_rep_count : {<<1, 1>>}, core_array_size : {0}]

LifeLaunch == {{}, {"disable_send_gids"}}

Next ==
    \/ Tick(Times)
    \/ \E a \in AuthInfos, l \in LifeLaunch, ok \in BOOLEAN :
          cred_g_init(a, l, ok)
    \/ \E ok \in BOOLEAN : cred_g_fini(ok)
    \/ \E arg \in LifeArgs, sign_it \in BOOLEAN, f \in BOOLEAN,
          b \in BOOLEAN :
          CredCreate(arg, sign_it, SLURM_PROTOCOL_VERSION, f, b)
    \/ \E arg \in LifeArgs, f \in BOOLEAN, b \in BOOLEAN : CredFaker(arg, f, b)
    \/ \E alloc_arg \in BOOLEAN : CredAlloc(alloc_arg)
    \/ CredGetArgs
    \/ CredUnlockArgs
    \/ \E e \in UnlockErrnos : CredVerify(e)
    \/ CredDestroy
    \/ CredGetSignature
    \/ \E pv \in ProtocolVersions : CredPack(pv)
    \/ \E pv \in ProtocolVersions : CredUnpack(pv)
    \/ \E uid \in {1000, 1001} : CredMutateArg(uid)
    \/ \E uid \in {1000, 1001} : WireTamper(uid)

Spec == Init /\ [][Next]_vars


(***************************************************************************)
(* SpecRound: create, pack, send, unpack over a wider set of argument      *)
(* bundles, protocol versions and feature flags, within the first instants.*)
(***************************************************************************)
RoundArgs ==
    [uid : {SLURM_AUTH_NOBODY, 1000, 1001}, gid : {1000}, job_id : {42},
     id : {"none", "caller"}, job_nhosts : {2},
     sock_core_rep_count : {NULL, <<1, 1>>}, core_array_size : {0}]

RoundLaunch == {{}, {"disable_send_gids"}}

RoundNext ==
    \/ Tick(1..(EarlyTimes + 1))
    \/ \E l \in RoundLaunch, ok \in BOOLEAN : cred_g_init(NULL, l, ok)
    \/ \E ok \in BOOLEAN : cred_g_fini(ok)
    \/ \E arg \in RoundArgs, pv \in ProtocolVersions, f \in BOOLEAN,
          b \in BOOLEAN : CredCreate(arg, TRUE, pv, f, b)
    \/ \E arg \in RoundArgs, f \in BOOLEAN, b \in BOOLEAN :
          CredFaker(arg, f, b)
    \/ \E alloc_arg \in BOOLEAN : CredAlloc(alloc_arg)
    \/ CredGetArgs
    \/ CredUnlockArgs
    \/ \E e \in UnlockErrnos : CredVerify(e)
    \/ CredDestroy
    \/ CredGetSignature
    \/ \E pv \in ProtocolVersions : CredPack(pv)
    \/ \E pv \in ProtocolVersions : CredUnpack(pv)
    \/ \E uid \in {1000, 1001} : CredMutateArg(uid)
    \/ \E uid \in {1000, 1001} : WireTamper(uid)

SpecRound == Init /\ [][RoundNext]_vars

(***************************************************************************)
(* Claims about slurm_cred_create and slurm_cred_verify, under Spec.       *)
(***************************************************************************)
Nobody(arg) == arg.uid = SLURM_AUTH_NOBODY \/ arg.gid = SLURM_AUTH_NOBODY

\* C1: slurm_cred_create returns NULL whenever arg.uid or arg.gid is
\* SLURM_AUTH_NOBODY, and then the backend's create/sign is never invoked
\* (and no credential object comes into being).
C1_NobodyRejected ==
    (last.op = "create" /\ Nobody(last.arg))
        => last.ret = NULL /\ ~last.backend /\ credential = NULL

C1_Witness ==
    /\ last.op = "create"
    /\ last.arg.uid # SLURM_AUTH_NOBODY
    /\ last.arg.gid = SLURM_AUTH_NOBODY
    /\ last.ret = NULL
    /\ g_context

Expired(v) == v.now > v.cred.ctime + v.cred_expire

\* C2: for a verified credential slurm_cred_verify returns the arg bundle
\* at every time t <= ctime + cred_expire (the boundary included) and
\* returns NULL with ESLURMD_CREDENTIAL_EXPIRED at every t beyond it.
C2_VerifyFreshness ==
    (last.op = "verify" /\ last.cred.verified)
        => IF Expired(last)
           THEN last.ret = NULL /\ last.errno = "ESLURMD_CREDENTIAL_EXPIRED"
           ELSE last.ret # NULL /\ last.ret = last.cred.arg

C2_Witness ==
    /\ last.op = "verify"
    /\ last.cred.verified
    /\ last.now = last.cred.ctime + last.cred_expire + 1
    /\ last.ret = NULL
    /\ last.errno = "ESLURMD_CREDENTIAL_EXPIRED"

\* C3: slurm_cred_verify on an unverified credential returns NULL with
\* ESLURMD_INVALID_JOB_CREDENTIAL at any time, expired or not, and a
\* credential fresh from slurm_cred_alloc is unverified.
C3_UnverifiedInvalid ==
    /\ (last.op = "verify" /\ ~last.cred.verified)
          => last.ret = NULL
             /\ last.errno = "ESLURMD_INVALID_JOB_CREDENTIAL"
    /\ last.op = "alloc" => ~last.ret[1].verified

C3_Witness ==
    /\ last.op = "verify"
    /\ ~last.cred.verified
    /\ Expired(last)
    /\ last.cred.signature # NULL
    /\ last.errno = "ESLURMD_INVALID_JOB_CREDENTIAL"

\* C4: slurm_cred_verify returns with the read lock held exactly when it
\* returns the arg bundle; on both failure paths the lock it took has been
\* released and errno is the one set for that failure.
C4_VerifyLock ==
    last.op = "verify"
        => /\ credential # NULL
           /\ credential[1].readers = last.readers
           /\ (last.ret # NULL) <=> (last.readers = last.cred.readers + 1)
           /\ (last.ret = NULL)
                 => /\ last.readers = last.cred.readers
                    /\ last.errno = IF last.cred.verified
                                    THEN "ESLURMD_CREDENTIAL_EXPIRED"
                                    ELSE "ESLURMD_INVALID_JOB_CREDENTIAL"

C4_Witness ==
    /\ last.op = "verify"
    /\ last.ret # NULL
    /\ credential # NULL
    /\ credential[1].readers = last.cred.readers + 1


(***************************************************************************)
(* Claims about the round trip and about slurm_cred_pack, under SpecRound. *)
(***************************************************************************)
\* the last call unpacked, at the version they were packed at, the untouched
\* bytes slurm_cred_pack wrote for a credential created with signing
RoundTrip(v) ==
    /\ v.op = "unpack"
    /\ ~v.wire.tampered
    /\ v.wire.made # NULL
    /\ v.wire.made[1].by = "create"
    /\ v.wire.made[1].sign_it
    /\ v.protocol_version = v.wire.made[1].protocol_version

\* C5 as stated: create with signing, pack at the same version, unpack gives
\* a verified credential whose arg bundle equals the caller's original and
\* whose signature is that of the created credential.
C5_RoundTripOriginalArg ==
    RoundTrip(last)
        => /\ last.ret # NULL
           /\ last.ret[1].verified
           /\ last.ret[1].arg = <<last.wire.made[1].arg_out>>
           /\ slurm_cred_get_signature(last.ret[1])
                 = slurm_cred_get_signature(last.wire.made[1].cred)

\* C5 as amended: the unpacked credential is verified, carries the same
\* signature, and its arg bundle equals the bundle slurm_cred_create handed
\* to the backend: the caller's bundle, except that id holds the fetched
\* identity when the caller left id unset and an enrichment flag was on.
C5_RoundTrip ==
    RoundTrip(last)
        => LET m == last.wire.made[1]
           IN  /\ last.ret # NULL
               /\ last.ret[1].verified
               /\ last.ret[1].ctime = m.cred.ctime
               /\ last.ret[1].arg = m.cred.arg
               /\ last.ret[1].arg
                     = <<[m.arg_out EXCEPT
                            !.id = IF m.arg_in.id = "none" /\ m.enrich
                                   THEN "fetched" ELSE @]>>
               /\ slurm_cred_get_signature(last.ret[1])
                     = slurm_cred_get_signature(m.cred)

C5_Witness ==
    /\ RoundTrip(last)
    /\ last.ret # NULL
    /\ last.ret[1].verified
    /\ last.ret[1].arg[1].id = "fetched"
    /\ last.wire.made[1].arg_in.id = "none"
    /\ last.ret[1].arg[1].sock_core_rep_count # NULL

\* C6: slurm_cred_pack emits exactly the bytes cached when the credential
\* came into being, whatever happened to the arg bundle since (so two packs
\* give the same bytes), and leaves buffer, buf_version, signature and arg
\* as they were.
C6_PackCopiesCache ==
    last.op = "pack"
        => /\ made # NULL
           /\ last.out = made[1].cred.buffer
           /\ credential = <<last.cred>>
           /\ last.cred.buffer = made[1].cred.buffer
           /\ last.cred.buf_version = made[1].cred.buf_version
           /\ last.cred.signature = made[1].cred.signature

C6_Witness ==
    /\ last.op = "pack"
    /\ made # NULL
    /\ made[1].by = "create"
    /\ last.cred.arg # made[1].cred.arg
    /\ last.out = made[1].cred.buffer

(***************************************************************************)
(* Broadcast (sbcast) credentials.                                         *)
(***************************************************************************)
\* flags & bit, for a single-bit mask
FlagSet(flags, bit) == (flags \div bit) % 2 = 1

\* _pack_sbcast_cred: the credential without its signature
_pack_sbcast_cred(sbcast, protocol_version) ==
    IF protocol_version >= SLURM_MIN_PROTOCOL_VERSION
    THEN pack_time(sbcast.ctime) \o pack_time(sbcast.expiration)
         \o pack32(sbcast.jobid) \o pack32(sbcast.het_job_id)
         \o pack32(sbcast.step_id) \o pack32(sbcast.uid) \o pack32(sbcast.gid)
         \o packstr(sbcast.user_name) \o pack32_array(sbcast.gids)
         \o packstr(sbcast.nodes)
    ELSE <<>>

\* (a variant that signs before the name and the groups are looked up)
create_sbcast_cred_sign_early(arg, protocol_version, t, send_gids, name, groups, sign_ok) ==
    LET given == [ctime |-> t, expiration |-> arg.expiration,
                  jobid |-> arg.job_id, het_job_id |-> arg.het_job_id,
                  step_id |-> arg.step_id, uid |-> arg.uid, gid |-> arg.gid,
                  user_name |-> arg.user_name, gids |-> arg.gids,
                  nodes |-> arg.nodes, verified |-> FALSE]
        sbcast == [given EXCEPT
                      !.user_name = IF send_gids THEN name ELSE arg.user_name,
                      !.gids = IF send_gids THEN groups ELSE arg.gids]
        signature == cred_sign(_pack_sbcast_cred(given, protocol_version))
    IN  IF ~sign_ok THEN NULL
        ELSE <<sbcast @@ [signature |-> signature]>>

\* create_sbcast_cred; `name` and `groups` are what uid_to_string_or_null and
\* group_cache_lookup answer, `sign_ok` whether the backend produced a
\* signature.  The object comes from xmalloc, so verified starts false.
create_sbcast_cred(arg, protocol_version, t, send_gids, name, groups, sign_ok) ==
    LET sbcast == [ctime |-> t, expiration |-> arg.expiration,
                   jobid |-> arg.job_id, het_job_id |-> arg.het_job_id,
                   step_id |-> arg.step_id, uid |-> arg.uid, gid |-> arg.gid,
                   user_name |-> IF send_gids THEN name ELSE arg.user_name,
                   gids |-> IF send_gids THEN groups ELSE arg.gids,
                   nodes |-> arg.nodes, verified |-> FALSE]
        signature == cred_sign(_pack_sbcast_cred(sbcast, protocol_version))
    IN  IF ~sign_ok THEN NULL
        ELSE <<sbcast @@ [signature |-> signature]>>

\* pack_sbcast_cred
pack_sbcast_cred(sbcast, buffer, protocol_version) ==
    buffer \o _pack_sbcast_cred(sbcast, protocol_version)
           \o packstr(sbcast.signature)

\* the backend's sbcast_unpack: decode the fields in the order they were
\* packed, then check the signature over the bytes that precede it;
\* `decode_ok` is the verdict of the signing service on this signature (it
\* refuses one it has decoded before)
sbcast_p_unpack(buffer, protocol_version, decode_ok) ==
    IF protocol_version < SLURM_MIN_PROTOCOL_VERSION \/ Len(buffer) < 8
    THEN NULL
    ELSE
    LET pname == 8
        pgids == pname + 1 + buffer[pname]
    IN  IF Len(buffer) < pgids THEN NULL
        ELSE
        LET pnodes == pgids + 1 + buffer[pgids]
        IN  IF Len(buffer) < pnodes THEN NULL
            ELSE
            LET psig == pnodes + 1 + buffer[pnodes]
            IN  IF Len(buffer) < psig \/ Len(buffer) # psig + buffer[psig]
                   \/ buffer[psig] = 0
                THEN NULL
                ELSE
                LET signature == Slice(buffer, psig + 1, buffer[psig])
                IN  <<[ctime |-> buffer[1], expiration |-> buffer[2],
                       jobid |-> buffer[3], het_job_id |-> buffer[4],
                       step_id |-> buffer[5], uid |-> buffer[6],
                       gid |-> buffer[7],
                       user_name |-> Slice(buffer, pname + 1, buffer[pname]),
                       gids |-> Slice(buffer, pgids + 1, buffer[pgids]),
                       nodes |-> Slice(buffer, pnodes + 1, buffer[pnodes]),
                       signature |-> signature,
                       verified |->
                          /\ decode_ok
                          /\ cred_verify_sign(Slice(buffer, 1, psig - 1),
                                              signature)]>>

\* the value of a plain char holding byte b, as the build has it
CharValue(b) == IF char_signed /\ b >= 128 THEN b - 256 ELSE b

\* uint32_t hash += term, with hash kept as <<high, low>> 16-bit halves;
\* term is an int between -65536 and 65535, converted modulo 2^32
Add32(hash, term) ==
    LET t == IF term >= 0 THEN <<0, term>> ELSE <<65535, 65536 + term>>
        lo == hash[2] + t[2]
        hi == hash[1] + t[1] + (lo \div 65536)
    IN  <<hi % 65536, lo % 65536>>

\* signature[i], with the terminating NUL at index strlen
SigChar(signature, i) ==
    IF i < Len(signature) THEN CharValue(signature[i + 1]) ELSE 0

RECURSIVE HashLoop(_, _, _)
HashLoop(signature, i, hash) ==
    IF i >= Len(signature) THEN hash
    ELSE HashLoop(signature, i + 2,
                  Add32(hash, SigChar(signature, i) * 256
                              + SigChar(signature, i + 1)))

_sbcast_cache_hash(signature) == HashLoop(signature, 0, <<0, 0>>)

\* _sbcast_cache_add: the list after the append
_sbcast_cache_add(recs, sbcast) ==
    Append(recs, [expire |-> sbcast.expiration,
                  value |-> _sbcast_cache_hash(sbcast.signature)])

RemoveAt(recs, i) == [k \in 1..(Len(recs) - 1) |->
                        IF k < i THEN recs[k] ELSE recs[k + 1]]

\* the list_next loop deleting the stale record it meets first and no other
CacheScan_first_only(recs, i, expiration, sig_num, t) ==
    LET hits == {k \in i..Len(recs) : /\ recs[k].expire = expiration
                                      /\ recs[k].value = sig_num}
        m == IF hits = {} THEN Len(recs) + 1
             ELSE CHOOSE k \in hits : \A j \in hits : k <= j
        stale == {k \in i..(m - 1) : recs[k].expire <= t}
    IN  [cache_match_found |-> hits # {},
         recs |-> IF stale = {} THEN recs
                  ELSE RemoveAt(recs, CHOOSE k \in stale :
                                         \A j \in stale : k <= j)]

\* the list_next loop without list_delete_item
CacheScan_no_delete(recs, i, expiration, sig_num, t) ==
    [cache_match_found |->
        \E k \in i..Len(recs) : /\ recs[k].expire = expiration
                                /\ recs[k].value = sig_num,
     recs |-> recs]

\* the list_next loop of extract_sbcast_cred from position i on: stops at
\* the first match, deletes the records it passes that have expire <= now
RECURSIVE CacheScan(_, _, _, _, _)
CacheScan(recs, i, expiration, sig_num, t) ==
    IF i > Len(recs) THEN [cache_match_found |-> FALSE, recs |-> recs]
    ELSE IF recs[i].expire = expiration /\ recs[i].value = sig_num
    THEN [cache_match_found |-> TRUE, recs |-> recs]
    ELSE IF recs[i].expire <= t
    THEN CacheScan(RemoveAt(recs, i), i, expiration, sig_num, t)
    ELSE CacheScan(recs, i + 1, expiration, sig_num, t)

\* the bundle extract_sbcast_cred returns: xmalloc zeroes the fields it does
\* not assign (het_job_id, expiration)
SbcastArgOf(sbcast) ==
    [job_id |-> sbcast.jobid, het_job_id |-> 0, step_id |-> sbcast.step_id,
     uid |-> sbcast.uid, gid |-> sbcast.gid, user_name |-> sbcast.user_name,
     gids |-> sbcast.gids, nodes |-> sbcast.nodes, expiration |-> 0]

\* variants of extract_sbcast_cred, each with one check altered
extract_sbcast_cred_ge(sbcast, block_no, flags, recs, t) ==
    IF t >= sbcast.expiration
    THEN [ret |-> NULL, recs |-> recs, listed |-> FALSE]
    ELSE
    LET first == block_no = 1 /\ ~FlagSet(flags, FILE_BCAST_SO)
        scan == CacheScan(recs, 1, sbcast.expiration,
                          _sbcast_cache_hash(sbcast.signature), t)
    IN  IF first /\ ~sbcast.verified
        THEN [ret |-> NULL, recs |-> recs, listed |-> FALSE]
        ELSE IF ~first /\ ~scan.cache_match_found
        THEN [ret |-> NULL, recs |-> scan.recs, listed |-> TRUE]
        ELSE
        LET after == IF first THEN _sbcast_cache_add(recs, sbcast)
                     ELSE scan.recs
        IN  IF sbcast.uid = SLURM_AUTH_NOBODY \/ sbcast.gid = SLURM_AUTH_NOBODY
            THEN [ret |-> NULL, recs |-> after, listed |-> TRUE]
            ELSE [ret |-> <<SbcastArgOf(sbcast)>>, recs |-> after,
                  listed |-> TRUE]

extract_sbcast_cred_unverified_ok(sbcast, block_no, flags, recs, t) ==
    IF t > sbcast.expiration
    THEN [ret |-> NULL, recs |-> recs, listed |-> FALSE]
    ELSE
    LET first == block_no = 1 /\ ~FlagSet(flags, FILE_BCAST_SO)
        scan == CacheScan(recs, 1, sbcast.expiration,
                          _sbcast_cache_hash(sbcast.signature), t)
    IN  IF ~first /\ ~scan.cache_match_found
        THEN [ret |-> NULL, recs |-> scan.recs, listed |-> TRUE]
        ELSE
        LET after == IF first THEN _sbcast_cache_add(recs, sbcast)
                     ELSE scan.recs
        IN  IF sbcast.uid = SLURM_AUTH_NOBODY \/ sbcast.gid = SLURM_AUTH_NOBODY
            THEN [ret |-> NULL, recs |-> after, listed |-> TRUE]
            ELSE [ret |-> <<SbcastArgOf(sbcast)>>, recs |-> after,
                  listed |-> TRUE]

extract_sbcast_cred_always_verified(sbcast, block_no, flags, recs, t) ==
    IF t > sbcast.expiration
    THEN [ret |-> NULL, recs |-> recs, listed |-> FALSE]
    ELSE
    LET first == block_no = 1 /\ ~FlagSet(flags, FILE_BCAST_SO)
        scan == CacheScan(recs, 1, sbcast.expiration,
                          _sbcast_cache_hash(sbcast.signature), t)
    IN  IF ~sbcast.verified
        THEN [ret |-> NULL, recs |-> recs, listed |-> FALSE]
        ELSE IF ~first /\ ~scan.cache_match_found
        THEN [ret |-> NULL, recs |-> scan.recs, listed |-> TRUE]
        ELSE
        LET after == IF first THEN _sbcast_cache_add(recs, sbcast)
                     ELSE scan.recs
        IN  IF sbcast.uid = SLURM_AUTH_NOBODY \/ sbcast.gid = SLURM_AUTH_NOBODY
            THEN [ret |-> NULL, recs |-> after, listed |-> TRUE]
            ELSE [ret |-> <<SbcastArgOf(sbcast)>>, recs |-> after,
                  listed |-> TRUE]

extract_sbcast_cred_no_gid_check(sbcast, block_no, flags, recs, t) ==
    IF t > sbcast.expiration
    THEN [ret |-> NULL, recs |-> recs, listed |-> FALSE]
    ELSE
    LET first == block_no = 1 /\ ~FlagSet(flags, FILE_BCAST_SO)
        scan == CacheScan(recs, 1, sbcast.expiration,
                          _sbcast_cache_hash(sbcast.signature), t)
    IN  IF first /\ ~sbcast.verified
        THEN [ret |-> NULL, recs |-> recs, listed |-> FALSE]
        ELSE IF ~first /\ ~scan.cache_match_found
        THEN [ret |-> NULL, recs |-> scan.recs, listed |-> TRUE]
        ELSE
        LET after == IF first THEN _sbcast_cache_add(recs, sbcast)
                     ELSE scan.recs
        IN  IF sbcast.uid = SLURM_AUTH_NOBODY
            THEN [ret |-> NULL, recs |-> after, listed |-> TRUE]
            ELSE [ret |-> <<SbcastArgOf(sbcast)>>, recs |-> after,
                  listed |-> TRUE]

\* extract_sbcast_cred: the bundle returned (or NULL) and the cache list
\* after the call; `listed` tells whether the call used the list at all
\* extract_sbcast_cred taking the first block of a shared object for a
\* first block
extract_sbcast_cred_so_adds(sbcast, block_no, flags, recs, t) ==
    IF t > sbcast.expiration
    THEN [ret |-> NULL, recs |-> recs, listed |-> FALSE]
    ELSE
    LET first == block_no = 1
        scan == CacheScan(recs, 1, sbcast.expiration,
                          _sbcast_cache_hash(sbcast.signature), t)
    IN  IF first /\ ~sbcast.verified
        THEN [ret |-> NULL, recs |-> recs, listed |-> FALSE]
        ELSE IF ~first /\ ~scan.cache_match_found
        THEN [ret |-> NULL, recs |-> scan.recs, listed |-> TRUE]
        ELSE
        LET after == IF first THEN _sbcast_cache_add(recs, sbcast)
                     ELSE scan.recs
        IN  IF sbcast.uid = SLURM_AUTH_NOBODY \/ sbcast.gid = SLURM_AUTH_NOBODY
            THEN [ret |-> NULL, recs |-> after, listed |-> TRUE]
            ELSE [ret |-> <<SbcastArgOf(sbcast)>>, recs |-> after,
                  listed |-> TRUE]

extract_sbcast_cred(sbcast, block_no, flags, recs, t) ==
    IF t > sbcast.expiration
    THEN [ret |-> NULL, recs |-> recs, listed |-> FALSE]
    ELSE
    LET first == block_no = 1 /\ ~FlagSet(flags, FILE_BCAST_SO)
        scan == CacheScan(recs, 1, sbcast.expiration,
                          _sbcast_cache_hash(sbcast.signature), t)
    IN  IF first /\ ~sbcast.verified
        THEN [ret |-> NULL, recs |-> recs, listed |-> FALSE]
        ELSE IF ~first /\ ~scan.cache_match_found
        THEN [ret |-> NULL, recs |-> scan.recs, listed |-> TRUE]
        ELSE
        LET after == IF first THEN _sbcast_cache_add(recs, sbcast)
                     ELSE scan.recs
        IN  IF sbcast.uid = SLURM_AUTH_NOBODY \/ sbcast.gid = SLURM_AUTH_NOBODY
            THEN [ret |-> NULL, recs |-> after, listed |-> TRUE]
            ELSE [ret |-> <<SbcastArgOf(sbcast)>>, recs |-> after,
                  listed |-> TRUE]

(***************************************************************************)
(* Broadcast credential operations.  One sbcast credential object is live  *)
(* at a time; the packed credential travels with every block of a file,    *)
(* so the receiver may unpack the same bytes several times.                *)
(***************************************************************************)
SbCreate(arg, protocol_version, name, groups, sign_ok) ==
    /\ ~aborted
    /\ sbcast_cred = NULL
    /\ swire = NULL
    /\ \/ ~g_context /\ Abort("create_sbcast_cred")
       \/ /\ g_context
          /\ sbcast_cred' = create_sbcast_cred(arg, protocol_version, now,
                                               enable_send_gids, name, groups,
                                               sign_ok)
          /\ seeded' = FALSE
          /\ last' = [op |-> "sb_create", arg |-> arg, ret |-> sbcast_cred']
          /\ UNCHANGED <<threadVars, now, aborted, confVars, sbcast_cache_list, jobVars,
                         swire>>

\* delete_sbcast_cred
SbDelete ==
    /\ ~aborted
    /\ sbcast_cred # NULL
    /\ sbcast_cred' = NULL
    /\ last' = [op |-> "sb_delete"]
    /\ UNCHANGED <<threadVars, now, aborted, confVars, sbcast_cache_list, jobVars, swire,
                   seeded>>

\* pack_sbcast_cred into a fresh buffer, which is then sent
SbPack(protocol_version) ==
    /\ ~aborted
    /\ swire = NULL
    /\ \/ sbcast_cred = NULL /\ Abort("pack_sbcast_cred")
       \/ /\ sbcast_cred # NULL
          /\ swire' = <<pack_sbcast_cred(sbcast_cred[1], <<>>,
                                         protocol_version)>>
          /\ last' = [op |-> "sb_pack", cred |-> sbcast_cred[1],
                      out |-> swire'[1]]
          /\ UNCHANGED <<threadVars, now, aborted, confVars, sbcast_cache_list, jobVars,
                         sbcast_cred, seeded>>

\* unpack_sbcast_cred of the bytes that came with a block
SbUnpack(protocol_version, decode_ok) ==
    /\ ~aborted
    /\ swire # NULL
    /\ sbcast_cred = NULL
    /\ \/ ~g_context /\ Abort("unpack_sbcast_cred")
       \/ /\ g_context
          /\ sbcast_cred' = sbcast_p_unpack(swire[1], protocol_version,
                                            decode_ok)
          /\ last' = [op |-> "sb_unpack", ret |-> sbcast_cred']
          /\ UNCHANGED <<threadVars, now, aborted, confVars, sbcast_cache_list, jobVars,
                         swire, seeded>>

\* the transfer is over: the packed credential is sent no more
SbSent ==
    /\ ~aborted
    /\ swire # NULL
    /\ sbcast_cred = NULL
    /\ swire' = NULL
    /\ last' = [op |-> "sb_sent"]
    /\ UNCHANGED <<threadVars, now, aborted, confVars, sbcast_cache_list, jobVars,
                   sbcast_cred, seeded>>

\* extract_sbcast_cred.  Without a context the xassert ends a debug build;
\* a build without assertions returns from the paths that do not touch the
\* list and faults on the others.
SbExtract(block_no, flags) ==
    /\ ~aborted
    /\ sbcast_cred # NULL
    /\ LET r == extract_sbcast_cred(sbcast_cred[1], block_no, flags,
                                    sbcast_cache_list.recs, now)
       IN  \/ ~g_context /\ Abort("extract_sbcast_cred")
           \/ /\ g_context \/ ~r.listed
              /\ Len(r.recs) <= MaxCache
              /\ sbcast_cache_list' = [sbcast_cache_list EXCEPT
                                          !.recs = r.recs]
              /\ last' = [op |-> "extract", cred |-> sbcast_cred[1],
                          block_no |-> block_no, flags |-> flags,
                          now |-> now, before |-> sbcast_cache_list.recs,
                          after |-> r.recs, ret |-> r.ret]
              /\ seeded' = (seeded \/ Len(r.recs) > Len(sbcast_cache_list.recs))
              /\ UNCHANGED <<threadVars, now, aborted, confVars, jobVars, sbcast_cred,
                             swire>>

(***************************************************************************)
(* SpecSbcast: broadcast credentials from creation to extraction on the    *)
(* receiving node, with the clock running past their expiration.           *)
(***************************************************************************)
SbTimes == 1..MaxSbTime

\* the bundles the controller passes at instant t, which lies before the
\* last instant: expiring at once or one instant later, with a NOBODY uid, a
\* NOBODY gid, or neither
SbArgs(t) ==
    IF t >= MaxSbTime THEN {} ELSE
    {[job_id |-> 42, het_job_id |-> 7, step_id |-> 0, uid |-> ids[1],
      gid |-> ids[2], user_name |-> <<117>>, gids |-> <<1000>>,
      nodes |-> <<110>>, expiration |-> e] :
        ids \in {<<1000, 1000>>, <<SLURM_AUTH_NOBODY, 1000>>,
                 <<1000, SLURM_AUTH_NOBODY>>},
        e \in {t, t + 1}}

\* block numbers and flag words: none, FILE_BCAST_FORCE alone, FILE_BCAST_SO
\* together with FILE_BCAST_FORCE
BlockNos == {1, 2}

FlagWords == {0, 1, FILE_BCAST_SO + 1}

SbNext ==
    \/ Tick(SbTimes)
    \/ \E ok \in BOOLEAN : cred_g_init(NULL, {}, ok)
    \/ \E ok \in BOOLEAN : cred_g_fini(ok)
    \/ \E arg \in SbArgs(now), sign_ok \in BOOLEAN :
          SbCreate(arg, SLURM_PROTOCOL_VERSION, <<117>>, <<1000, 1001>>,
                   sign_ok)
    \/ SbDelete
    \/ SbPack(SLURM_PROTOCOL_VERSION)
    \/ \E decode_ok \in BOOLEAN : SbUnpack(SLURM_PROTOCOL_VERSION, decode_ok)
    \/ SbSent
    \/ \E block_no \in BlockNos, flags \in FlagWords :
          SbExtract(block_no, flags)

SpecSbcast == Init /\ [][SbNext]_vars

(***************************************************************************)
(* Claims about extract_sbcast_cred, under SpecSbcast.                     *)
(***************************************************************************)
\* the call took the block-one path: block_no = 1 and FILE_BCAST_SO clear
FirstBlock(v) == v.block_no = 1 /\ ~FlagSet(v.flags, FILE_BCAST_SO)

\* the list holds a record for this credential
Cached(recs, sbcast) ==
    \E i \in 1..Len(recs) :
        /\ recs[i].expire = sbcast.expiration
        /\ recs[i].value = _sbcast_cache_hash(sbcast.signature)

ValidIds(sbcast) ==
    sbcast.uid # SLURM_AUTH_NOBODY /\ sbcast.gid # SLURM_AUTH_NOBODY

\* C7: once now > expiration, extract_sbcast_cred returns NULL for every
\* block number, flag word and cache content, and leaves the cache as it
\* was; at now = expiration the expiry check does not reject: a verified
\* credential with valid ids passes on the block-one path, and a cached one
\* on the lookup path.
C7_ExpiredRejected ==
    last.op = "extract"
        => /\ last.now > last.cred.expiration
              => last.ret = NULL /\ last.after = last.before
           /\ /\ last.now = last.cred.expiration
              /\ ValidIds(last.cred)
              /\ IF FirstBlock(last) THEN last.cred.verified
                 ELSE Cached(last.before, last.cred)
              => last.ret # NULL

C7_Witness ==
    /\ last.op = "extract"
    /\ last.now > last.cred.expiration
    /\ ~FirstBlock(last)
    /\ ValidIds(last.cred)
    /\ Cached(last.before, last.cred)
    /\ last.ret = NULL

\* C8: for an unexpired credential with valid uid and gid, extract on the
\* block-one path succeeds exactly when verified is set, and a successful
\* call has appended the record (expiration, hash(signature)) to the cache.
C8_FirstBlockVerified ==
    /\ last.op = "extract"
    /\ FirstBlock(last)
    /\ last.now <= last.cred.expiration
    /\ ValidIds(last.cred)
    => /\ last.ret # NULL <=> last.cred.verified
       /\ last.ret # NULL
             => /\ last.after = _sbcast_cache_add(last.before, last.cred)
                /\ Cached(last.after, last.cred)
                /\ sbcast_cache_list.recs = last.after

C8_Witness ==
    /\ last.op = "extract"
    /\ FirstBlock(last)
    /\ last.flags # 0
    /\ last.cred.verified
    /\ last.ret # NULL
    /\ ~Cached(last.before, last.cred)
    /\ Cached(sbcast_cache_list.recs, last.cred)

C10_NobodyRejected ==
    /\ last.op = "extract"
    /\ ~ValidIds(last.cred)
    => last.ret = NULL

C10_Witness ==
    /\ last.op = "extract"
    /\ ~FirstBlock(last)
    /\ last.cred.gid = SLURM_AUTH_NOBODY
    /\ last.cred.verified
    /\ last.now <= last.cred.expiration
    /\ Cached(last.before, last.cred)
    /\ last.ret = NULL

(***************************************************************************)
(* Threads on one credential: the calls of cred.c taken apart at their     *)
(* lock operations.  cred->mutex is a read-write lock: credential.readers  *)
(* counts the read locks held, wrlock names the writer.                    *)
(***************************************************************************)
\* the calls that take the read lock themselves, with the part they read
LockingCalls == {"get_args", "verify", "get_signature", "pack"}

\* the calls that read credential->arg without touching the lock
PlainCalls == {"get_mem", "format_core_allocs", "get_cred_gres"}

PartRead(op) ==
    CASE op = "get_signature" -> "signature"
      [] op = "pack" -> "buffer"
      [] OTHER -> "arg"

\* a read of `part` by thread t: recorded when the part is already freed
ReadOf(t, part) ==
    IF part \in freed
    THEN races \cup {[op |-> pc[t].op, part |-> part, locked |-> pc[t].locked]}
    ELSE races

\* slurm_rwlock_rdlock(&cred->mutex) at the head of a locking call: granted
\* while no writer holds the lock, whoever else reads
RdLock(t, op) ==
    /\ ~aborted
    /\ pc[t] = Idle
    /\ credential # NULL
    /\ wrlock = 0
    /\ pc' = [pc EXCEPT ![t] = [op |-> op, at |-> "locked", locked |-> TRUE]]
    /\ credential' = <<[credential[1] EXCEPT !.readers = @ + 1]>>
    /\ UNCHANGED <<nsVars, g_context_lock, now, aborted, confVars, sbcast_cache_list, wire, made,
                   sbVars, wrlock, freed, races, last>>

\* the body of a locking call, under the lock: get_signature and pack copy
\* and unlock, verify unlocks on its error path, get_args and a successful
\* verify return the arg pointer with the lock still held
LockedRead(t) ==
    /\ ~aborted
    /\ pc[t].at = "locked"
    /\ races' = ReadOf(t, PartRead(pc[t].op))
    /\ LET cred == credential[1]
           keep == \/ pc[t].op = "get_args"
                   \/ /\ pc[t].op = "verify"
                      /\ slurm_cred_verify([cred EXCEPT !.readers = @ - 1],
                                           now, "unchanged").ret # NULL
       IN  IF keep
           THEN /\ pc' = [pc EXCEPT ![t].at = "caller"]
                /\ UNCHANGED credential
           ELSE /\ pc' = [pc EXCEPT ![t] = Idle]
                /\ credential' = <<[cred EXCEPT !.readers = @ - 1]>>
    /\ UNCHANGED <<nsVars, g_context_lock, now, aborted, confVars, sbcast_cache_list, wire, made,
                   sbVars, wrlock, freed, last>>

\* slurm_cred_unlock_args by the caller that was handed the arg pointer
UnlockArgs(t) ==
    /\ ~aborted
    /\ pc[t].at = "caller"
    /\ pc' = [pc EXCEPT ![t] = Idle]
    /\ credential' = <<[credential[1] EXCEPT !.readers = @ - 1]>>
    /\ UNCHANGED <<nsVars, g_context_lock, now, aborted, confVars, sbcast_cache_list, wire, made,
                   sbVars, wrlock, freed, races, last>>

\* slurm_cred_get_mem, format_core_allocs, get_cred_gres: the call loads
\* credential->arg on entry; it is made by a thread that holds no lock, or by
\* one that was handed the arg pointer and still holds the read lock
PlainEnter(t, op) ==
    /\ ~aborted
    /\ pc[t].at \in {"idle", "caller"}
    /\ credential # NULL
    /\ pc' = [pc EXCEPT ![t] = [op |-> op, at |-> "arg", locked |-> @.locked]]
    /\ UNCHANGED <<nsVars, g_context_lock, now, aborted, confVars, sbcast_cache_list, jobVars, sbVars,
                   wrlock, freed, races, last>>

\* ... and then reads the fields of the arg bundle through that pointer
PlainRead(t) ==
    /\ ~aborted
    /\ pc[t].at = "arg"
    /\ races' = ReadOf(t, "arg")
    /\ pc' = [pc EXCEPT ![t] = IF @.locked
                               THEN [op |-> "get_args", at |-> "caller",
                                     locked |-> TRUE]
                               ELSE Idle]
    /\ UNCHANGED <<nsVars, g_context_lock, now, aborted, confVars, sbcast_cache_list, jobVars, sbVars,
                   wrlock, freed, last>>

\* slurm_cred_destroy is called (once per credential) and reaches
\* slurm_rwlock_wrlock
DestroyCall(t) ==
    /\ ~aborted
    /\ pc[t] = Idle
    /\ credential # NULL
    /\ \A u \in Threads : pc[u].op # "destroy"
    /\ pc' = [pc EXCEPT ![t] = [op |-> "destroy", at |-> "wrlock",
                                locked |-> FALSE]]
    /\ UNCHANGED <<nsVars, g_context_lock, now, aborted, confVars, sbcast_cache_list, jobVars, sbVars,
                   wrlock, freed, races, last>>

\* (a variant whose write lock is granted while readers hold the lock)
DestroyWrlock_ignoring_readers(t) ==
    /\ ~aborted
    /\ pc[t].at = "wrlock"
    /\ wrlock = 0
    /\ wrlock' = t
    /\ pc' = [pc EXCEPT ![t].at = "free_args"]
    /\ UNCHANGED <<nsVars, g_context_lock, now, aborted, confVars, sbcast_cache_list, jobVars, sbVars,
                   freed, races, last>>

\* slurm_rwlock_wrlock returns: no reader and no writer holds the lock
DestroyWrlock(t) ==
    /\ ~aborted
    /\ pc[t].at = "wrlock"
    /\ wrlock = 0
    /\ credential[1].readers = 0
    /\ wrlock' = t
    /\ pc' = [pc EXCEPT ![t].at = "free_args"]
    /\ UNCHANGED <<nsVars, g_context_lock, now, aborted, confVars, sbcast_cache_list, jobVars, sbVars,
                   freed, races, last>>

\* slurm_cred_free_args, FREE_NULL_BUFFER, xfree(signature), in that order
DestroyFree(t) ==
    /\ ~aborted
    /\ pc[t].at \in {"free_args", "free_buffer", "free_signature"}
    /\ freed' = freed \cup {CASE pc[t].at = "free_args" -> "arg"
                              [] pc[t].at = "free_buffer" -> "buffer"
                              [] OTHER -> "signature"}
    /\ pc' = [pc EXCEPT ![t].at =
                 CASE @ = "free_args" -> "free_buffer"
                   [] @ = "free_buffer" -> "free_signature"
                   [] OTHER -> "unlock"]
    /\ UNCHANGED <<nsVars, g_context_lock, now, aborted, confVars, sbcast_cache_list, jobVars, sbVars,
                   wrlock, races, last>>

\* unlock, destroy the lock, xfree(cred)
DestroyDone(t) ==
    /\ ~aborted
    /\ pc[t].at = "unlock"
    /\ wrlock' = 0
    /\ freed' = freed \cup {"cred"}
    /\ credential' = NULL
    /\ made' = NULL
    /\ pc' = [pc EXCEPT ![t] = Idle]
    /\ UNCHANGED <<nsVars, g_context_lock, now, aborted, confVars, sbcast_cache_list, wire, sbVars,
                   races, last>>

(***************************************************************************)
(* SpecThreads: the threads of a daemon working on one credential, from    *)
(* the moment it exists until it is destroyed.                             *)
(***************************************************************************)
ThreadArg ==
    [uid |-> 1000, gid |-> 1000, job_id |-> 42, id |-> "fetched",
     job_nhosts |-> 2, sock_core_rep_count |-> <<1, 1>>,
     core_array_size |-> 2]

\* the credential as slurm_cred_create left it, or as slurm_cred_unpack left
\* it on the receiving side (verified)
ThreadCreds ==
    LET created == cred_p_create(ThreadArg, TRUE, SLURM_PROTOCOL_VERSION, 1)
    IN  {<<created>>,
         cred_p_unpack(slurm_cred_pack(created, <<>>, SLURM_PROTOCOL_VERSION),
                       SLURM_PROTOCOL_VERSION)}

\* the interface is initialised and one credential exists
ThreadInit ==
    /\ now = 1
    /\ aborted = FALSE
    /\ g_context = TRUE
    /\ cred_restart_time = 1
    /\ cred_expire = DEFAULT_EXPIRATION_WINDOW
    /\ enable_nss_slurm = FALSE
    /\ enable_send_gids = TRUE
    /\ sbcast_cache_list = [alloc |-> TRUE, recs |-> <<>>]
    /\ credential \in ThreadCreds
    /\ wire = NULL
    /\ made = NULL
    /\ sbcast_cred = NULL
    /\ swire = NULL
    /\ seeded = FALSE
    /\ char_signed = TRUE
    /\ slurm_conf = [authinfo |-> NULL, launch_params |-> {}]
    /\ pc = [t \in Threads |-> Idle]
    /\ wrlock = 0
    /\ g_context_lock = 0
    /\ NsInit
    /\ freed = {}
    /\ races = {}
    /\ last = [op |-> "none"]

ThreadNext ==
    \E t \in Threads :
        \/ \E op \in LockingCalls : RdLock(t, op)
        \/ LockedRead(t)
        \/ UnlockArgs(t)
        \/ \E op \in PlainCalls : PlainEnter(t, op)
        \/ PlainRead(t)
        \/ DestroyCall(t)
        \/ DestroyWrlock(t)
        \/ DestroyFree(t)
        \/ DestroyDone(t)

SpecThreads == ThreadInit /\ [][ThreadNext]_vars

(***************************************************************************)
(* Claims about the credential lock, under SpecThreads.                    *)
(***************************************************************************)
ReadLockHolders == {t \in Threads : pc[t].locked}

\* C11: while a thread holds the read lock it got through
\* slurm_cred_get_args or a successful slurm_cred_verify, any other thread
\* that is in no call can take the read lock too, and slurm_cred_destroy has
\* freed neither the arg bundle nor the cached buffer nor the signature: it
\* holds no write lock until every reader has called slurm_cred_unlock_args.
C11_ReadersShareDestroyWaits ==
    /\ credential # NULL
          => credential[1].readers = Cardinality(ReadLockHolders)
    /\ \A t \in Threads :
          pc[t].locked
             => /\ credential # NULL
                /\ freed = {}
                /\ wrlock = 0
                /\ \A u \in Threads :
                      pc[u] = Idle => ENABLED RdLock(u, "get_args")

C11_Witness ==
    \E t, u, w \in Threads :
        /\ t # u
        /\ pc[t].at = "caller" /\ pc[t].op = "get_args"
        /\ pc[u].at = "caller" /\ pc[u].op = "verify"
        /\ pc[w].op = "destroy" /\ pc[w].at = "wrlock"
        /\ freed = {}

\* C12: every call that reads the arg bundle, the cached buffer or the
\* signature holds the credential's read lock while it reads, so no such
\* read comes after slurm_cred_destroy freed the part it reads.
C12_ReadsUnderLock ==
    /\ \A t \in Threads : pc[t].at \in {"locked", "arg"} => pc[t].locked
    /\ races = {}

\* a call that takes no lock read the arg bundle after it was freed
C12_Witness ==
    \E r \in races :
        /\ r.op \in PlainCalls
        /\ r.part = "arg"
        /\ ~r.locked

\* what does hold: the calls that take the read lock themselves, and the
\* plain calls made by a thread that holds it, never read a freed part
C12_LockedReadsSafe ==
    \A r \in races : r.op \in PlainCalls /\ ~r.locked

(***************************************************************************)
(* The allocation projector: format_core_allocs and slurm_cred_get_mem.    *)
(* A host list is the sequence of the node names it expands to, a bitmap   *)
(* a sequence of 0/1 (bit i is element i + 1), and a formatted range list  *)
(* the sequence of its ranges <<first, last>>, with a flag for brackets.   *)
(***************************************************************************)
\* hostlist_find / nodelist_find: 0-origin index of the name, or -1
RECURSIVE FindFrom(_, _, _)
FindFrom(hosts, name, i) ==
    IF i > Len(hosts) THEN -1
    ELSE IF hosts[i] = name THEN i - 1
    ELSE FindFrom(hosts, name, i + 1)

hostlist_find(hset, name) == FindFrom(hset, name, 1)

nodelist_find(nodelist, name) == FindFrom(nodelist, name, 1)

\* slurm_get_rep_count_inx: the run that holds node inx, or -1
RECURSIVE RepCountLoop(_, _, _, _, _)
RepCountLoop(rep_count, rep_count_size, inx, i, rep_count_sum) ==
    IF i >= rep_count_size THEN -1
    ELSE IF rep_count[i + 1] = 0 THEN -1
    ELSE IF rep_count_sum + rep_count[i + 1] > inx THEN i
    ELSE RepCountLoop(rep_count, rep_count_size, inx, i + 1,
                      rep_count_sum + rep_count[i + 1])

slurm_get_rep_count_inx(rep_count, rep_count_size, inx) ==
    RepCountLoop(rep_count, rep_count_size, inx, 0, 0)

bit_test(b, bit) == b[bit + 1] = 1

\* bit_fmt: the maximal runs of set bits in ascending order, in brackets
\* when there is more than one run
IsRunStart(b, i) == b[i] = 1 /\ (i = 1 \/ b[i - 1] = 0)

RECURSIVE RunEnd(_, _)
RunEnd(b, i) == IF i < Len(b) /\ b[i + 1] = 1 THEN RunEnd(b, i + 1) ELSE i

RECURSIVE RunsFrom(_, _)
RunsFrom(b, i) ==
    IF i > Len(b) THEN <<>>
    ELSE IF IsRunStart(b, i)
    THEN <<<<i - 1, RunEnd(b, i) - 1>>>> \o RunsFrom(b, RunEnd(b, i) + 1)
    ELSE RunsFrom(b, i + 1)

bit_fmt(b) ==
    LET runs == RunsFrom(b, 1)
    IN  [bracket |-> Len(runs) > 1, ranges |-> runs]

\* _core_format: bit_fmt with the brackets stripped
_core_format(core_bitmap) ==
    LET str == bit_fmt(core_bitmap)
    IN  IF ~str.bracket THEN str ELSE [str EXCEPT !.bracket = FALSE]

\* (a variant without the batch step shortcut)
slurm_cred_get_mem_no_batch(cred, node_name, job_mem_limit, step_mem_limit) ==
    LET node_id == nodelist_find(cred.job_hostlist, node_name)
        rep_idx == IF node_id >= 0
                   THEN slurm_get_rep_count_inx(cred.job_mem_alloc_rep_count,
                                                cred.job_mem_alloc_size,
                                                node_id)
                   ELSE -1
        job == IF rep_idx < 0 THEN job_mem_limit
               ELSE cred.job_mem_alloc[rep_idx + 1]
    IN  IF step_mem_limit = NULL
        THEN [job_mem_limit |-> job, step_mem_limit |-> NULL]
        ELSE
        LET step_node == nodelist_find(cred.step_hostlist, node_name)
            step_idx == IF step_node >= 0
                        THEN slurm_get_rep_count_inx(
                                 cred.step_mem_alloc_rep_count,
                                 cred.step_mem_alloc_size, step_node)
                        ELSE -1
            step == IF cred.step_mem_alloc # NULL /\ step_idx >= 0
                    THEN cred.step_mem_alloc[step_idx + 1]
                    ELSE step_mem_limit[1]
        IN  [job_mem_limit |-> job,
             step_mem_limit |-> <<IF step = 0 THEN job ELSE step>>]

\* slurm_cred_get_mem: the two limits after the call, given what they held
\* before; step_mem_limit is NULL when the caller passed no pointer
slurm_cred_get_mem(cred, node_name, job_mem_limit, step_mem_limit) ==
    LET node_id == nodelist_find(cred.job_hostlist, node_name)
        rep_idx == IF cred.step_id = SLURM_BATCH_SCRIPT THEN 0
                   ELSE IF node_id >= 0
                   THEN slurm_get_rep_count_inx(cred.job_mem_alloc_rep_count,
                                                cred.job_mem_alloc_size,
                                                node_id)
                   ELSE -1
        job == IF rep_idx < 0 THEN job_mem_limit
               ELSE cred.job_mem_alloc[rep_idx + 1]
    IN  IF step_mem_limit = NULL
        THEN [job_mem_limit |-> job, step_mem_limit |-> NULL]
        ELSE
        LET step_node == nodelist_find(cred.step_hostlist, node_name)
            step_idx == IF step_node >= 0
                        THEN slurm_get_rep_count_inx(
                                 cred.step_mem_alloc_rep_count,
                                 cred.step_mem_alloc_size, step_node)
                        ELSE -1
            step == IF cred.step_mem_alloc # NULL /\ step_idx >= 0
                    THEN cred.step_mem_alloc[step_idx + 1]
                    ELSE step_mem_limit[1]
        IN  [job_mem_limit |-> job,
             step_mem_limit |-> <<IF step = 0 THEN job ELSE step>>]

\* the for loop of format_core_allocs over the run-length shape arrays, with
\* host_index 1-origin: the slice [i_first_bit, i_last_bit) of the node.
\* (Arrays that do not cover the node make the code read past their end;
\* the arrays of the credentials considered here cover job_nhosts.)
RECURSIVE CoreSliceLoop_no_width(_, _, _, _)
CoreSliceLoop_no_width(cred, i, host_index, i_first_bit) ==
    IF i >= Len(cred.sock_core_rep_count)
    THEN [i_first_bit |-> i_first_bit, i_last_bit |-> 0]
    ELSE
    LET per_node == cred.sockets_per_node[i + 1] * cred.cores_per_socket[i + 1]
        reps == cred.sock_core_rep_count[i + 1]
    IN  IF host_index > reps
        THEN CoreSliceLoop_no_width(cred, i + 1, host_index - reps,
                                    i_first_bit + per_node * reps)
        ELSE [i_first_bit |-> i_first_bit + per_node * (host_index - 1),
              i_last_bit |-> i_first_bit + per_node * (host_index - 1)]

RECURSIVE CoreSliceLoop(_, _, _, _)
CoreSliceLoop(cred, i, host_index, i_first_bit) ==
    IF i >= Len(cred.sock_core_rep_count)
    THEN [i_first_bit |-> i_first_bit, i_last_bit |-> 0]
    ELSE
    LET per_node == cred.sockets_per_node[i + 1] * cred.cores_per_socket[i + 1]
        reps == cred.sock_core_rep_count[i + 1]
    IN  IF host_index > reps
        THEN CoreSliceLoop(cred, i + 1, host_index - reps,
                           i_first_bit + per_node * reps)
        ELSE [i_first_bit |-> i_first_bit + per_node * (host_index - 1),
              i_last_bit |-> i_first_bit + per_node * (host_index - 1)
                                + per_node]

\* the value of i when that loop is left by its break (the number of
\* entries when the arrays end first)
RECURSIVE CoreSliceIndex(_, _, _)
CoreSliceIndex(cred, i, host_index) ==
    IF i >= Len(cred.sock_core_rep_count) THEN i
    ELSE IF host_index > cred.sock_core_rep_count[i + 1]
    THEN CoreSliceIndex(cred, i + 1,
                        host_index - cred.sock_core_rep_count[i + 1])
    ELSE i

\* (a variant whose copy loop stops one bit early)
CoreSliceBits_short(core_bitmap, i_first_bit, i_last_bit) ==
    [j \in 1..(IF i_last_bit > i_first_bit THEN i_last_bit - i_first_bit
               ELSE 0) |->
        IF i_first_bit + j < i_last_bit
           /\ bit_test(core_bitmap, i_first_bit + j - 1)
        THEN 1 ELSE 0]

\* the copy loop: bits [i_first_bit, i_last_bit) of a credential bitmap,
\* renumbered from 0
CoreSliceBits(core_bitmap, i_first_bit, i_last_bit) ==
    [j \in 1..(IF i_last_bit > i_first_bit THEN i_last_bit - i_first_bit
               ELSE 0) |->
        IF bit_test(core_bitmap, i_first_bit + j - 1) THEN 1 ELSE 0]

\* (a variant that lets the index job_nhosts through)
format_core_allocs_gt(cred, node_name, front_end, hset_ok, outs) ==
    IF ~hset_ok THEN outs
    ELSE
    LET host_index == IF front_end THEN 0
                      ELSE hostlist_find(cred.job_hostlist, node_name)
    IN  IF host_index < 0 \/ host_index > cred.job_nhosts THEN outs
        ELSE
        LET slice == CoreSliceLoop(cred, 0, host_index + 1, 0)
            mem == slurm_cred_get_mem(cred, node_name, outs.job_mem_limit,
                                      outs.step_mem_limit)
        IN  [job_alloc_cores |->
                <<_core_format(CoreSliceBits(cred.job_core_bitmap,
                                             slice.i_first_bit,
                                             slice.i_last_bit))>>,
             step_alloc_cores |->
                <<_core_format(CoreSliceBits(cred.step_core_bitmap,
                                             slice.i_first_bit,
                                             slice.i_last_bit))>>,
             job_mem_limit |-> mem.job_mem_limit,
             step_mem_limit |-> mem.step_mem_limit]

\* format_core_allocs: the four outputs after the call, given what they held
\* before.  front_end is the build option HAVE_FRONT_END, hset_ok whether
\* hostlist_create returned a list.  (cpus only feeds a debug message.)
format_core_allocs(cred, node_name, front_end, hset_ok, outs) ==
    IF ~hset_ok THEN outs
    ELSE
    LET host_index == IF front_end THEN 0
                      ELSE hostlist_find(cred.job_hostlist, node_name)
    IN  IF host_index < 0 \/ host_index >= cred.job_nhosts THEN outs
        ELSE
        LET slice == CoreSliceLoop(cred, 0, host_index + 1, 0)
            mem == slurm_cred_get_mem(cred, node_name, outs.job_mem_limit,
                                      outs.step_mem_limit)
        IN  [job_alloc_cores |->
                <<_core_format(CoreSliceBits(cred.job_core_bitmap,
                                             slice.i_first_bit,
                                             slice.i_last_bit))>>,
             step_alloc_cores |->
                <<_core_format(CoreSliceBits(cred.step_core_bitmap,
                                             slice.i_first_bit,
                                             slice.i_last_bit))>>,
             job_mem_limit |-> mem.job_mem_limit,
             step_mem_limit |-> mem.step_mem_limit]

(***************************************************************************)
(* SpecAlloc: a node daemon holds a credential and projects it onto node   *)
(* names.  The credentials differ in node shapes, bitmaps and memory runs. *)
(***************************************************************************)
\* three nodes in the host list; the shape arrays give each node its
\* sockets x cores
Shapes ==
    {[job_nhosts |-> 3, sock_core_rep_count |-> <<2, 1>>,
      sockets_per_node |-> <<1, 1>>, cores_per_socket |-> <<2, 1>>,
      bits |-> 5],
     [job_nhosts |-> 3, sock_core_rep_count |-> <<1, 2>>,
      sockets_per_node |-> <<1, 2>>, cores_per_socket |-> <<1, 1>>,
      bits |-> 5],
     [job_nhosts |-> 2, sock_core_rep_count |-> <<1, 1>>,
      sockets_per_node |-> <<2, 1>>, cores_per_socket |-> <<1, 1>>,
      bits |-> 3]}

\* the job's memory runs, and the step's (absent, or with a 0 for the first
\* two nodes)
JobMems ==
    {[alloc |-> <<1024>>, rep_count |-> <<3>>],
     [alloc |-> <<512, 2048>>, rep_count |-> <<1, 2>>]}

StepMems ==
    {[alloc |-> NULL, rep_count |-> NULL],
     [alloc |-> <<0, 256>>, rep_count |-> <<2, 1>>]}

AllocArg(shape, job_bits, step_bits, step_id, job_mem, step_mem, step_hosts) ==
    [step_id |-> step_id, job_hostlist |-> <<1, 2, 3>>,
     step_hostlist |-> step_hosts, job_nhosts |-> shape.job_nhosts,
     sock_core_rep_count |-> shape.sock_core_rep_count,
     sockets_per_node |-> shape.sockets_per_node,
     cores_per_socket |-> shape.cores_per_socket,
     job_core_bitmap |-> job_bits, step_core_bitmap |-> step_bits,
     job_mem_alloc |-> job_mem.alloc,
     job_mem_alloc_rep_count |-> job_mem.rep_count,
     job_mem_alloc_size |-> Len(job_mem.rep_count),
     step_mem_alloc |-> step_mem.alloc,
     step_mem_alloc_rep_count |-> step_mem.rep_count,
     step_mem_alloc_size |-> Len(step_mem.rep_count)]

\* every job bitmap of each shape, with a step that has all of the job's
\* cores or those at even positions
CoreArgs ==
    UNION {{AllocArg(shape, job_bits,
                     [i \in 1..shape.bits |->
                         IF all \/ i % 2 = 1 THEN job_bits[i] ELSE 0],
                     0, [alloc |-> <<1024>>, rep_count |-> <<3>>],
                     [alloc |-> NULL, rep_count |-> NULL], <<1, 2, 3>>) :
               job_bits \in [1..shape.bits -> {0, 1}], all \in BOOLEAN} :
           shape \in Shapes}

MemArgs ==
    {AllocArg(shape, <<1, 1, 0, 1, 1>>, <<1, 0, 0, 1, 0>>, step_id, job_mem,
              step_mem, step_hosts) :
        shape \in {sh \in Shapes : sh.sock_core_rep_count = <<2, 1>>},
        step_id \in {0, SLURM_BATCH_SCRIPT}, job_mem \in JobMems,
        step_mem \in StepMems, step_hosts \in {<<1, 2, 3>>, <<2, 3>>}}

AllocArgs == CoreArgs \cup MemArgs

\* the interface is initialised and the daemon holds one credential
AllocInit ==
    /\ now = 1
    /\ aborted = FALSE
    /\ g_context = TRUE
    /\ cred_restart_time = 1
    /\ cred_expire = DEFAULT_EXPIRATION_WINDOW
    /\ enable_nss_slurm = FALSE
    /\ enable_send_gids = TRUE
    /\ sbcast_cache_list = [alloc |-> TRUE, recs |-> <<>>]
    /\ \E a \in AllocArgs :
          credential = <<[slurm_cred_alloc(FALSE) EXCEPT !.arg = <<a>>,
                                                        !.verified = TRUE]>>
    /\ wire = NULL
    /\ made = NULL
    /\ sbcast_cred = NULL
    /\ swire = NULL
    /\ seeded = FALSE
    /\ char_signed = TRUE
    /\ slurm_conf = [authinfo |-> NULL, launch_params |-> {}]
    /\ pc = [t \in Threads |-> Idle]
    /\ wrlock = 0
    /\ g_context_lock = 0
    /\ NsInit
    /\ freed = {}
    /\ races = {}
    /\ last = [op |-> "none"]

\* a call of format_core_allocs with the outputs holding `outs` on entry
FormatCoreAllocs(node_name, front_end, hset_ok, outs) ==
    /\ ~aborted
    /\ credential # NULL
    /\ credential[1].arg # NULL
    /\ last' = [op |-> "format_core_allocs", cred |-> credential[1].arg[1],
                node_name |-> node_name, front_end |-> front_end,
                hset_ok |-> hset_ok, ins |-> outs,
                outs |-> format_core_allocs(credential[1].arg[1], node_name,
                                            front_end, hset_ok, outs)]
    /\ UNCHANGED <<threadVars, now, aborted, confVars, sbcast_cache_list,
                   jobVars, sbVars>>

\* a call of slurm_cred_get_mem with the limits holding these values on entry
GetMem(node_name, job_mem_limit, step_mem_limit) ==
    /\ ~aborted
    /\ credential # NULL
    /\ credential[1].arg # NULL
    /\ last' = [op |-> "get_mem", cred |-> credential[1].arg[1],
                node_name |-> node_name,
                ins |-> [job_mem_limit |-> job_mem_limit,
                         step_mem_limit |-> step_mem_limit],
                outs |-> slurm_cred_get_mem(credential[1].arg[1], node_name,
                                            job_mem_limit, step_mem_limit)]
    /\ UNCHANGED <<threadVars, now, aborted, confVars, sbcast_cache_list,
                   jobVars, sbVars>>

\* node names: the three of the host list and one that is not in it
NodeNames == {1, 2, 3, 9}

\* what the caller's output variables hold before the call: nothing, or
\* the results of an earlier call
OutsBefore ==
    {[job_alloc_cores |-> NULL, step_alloc_cores |-> NULL,
      job_mem_limit |-> 0, step_mem_limit |-> <<0>>],
     [job_alloc_cores |-> <<[bracket |-> FALSE, ranges |-> <<<<7, 7>>>>]>>,
      step_alloc_cores |-> <<[bracket |-> FALSE, ranges |-> <<<<7, 7>>>>]>>,
      job_mem_limit |-> 77, step_mem_limit |-> <<88>>]}

AllocNext ==
    \/ \E node_name \in NodeNames, front_end \in BOOLEAN, hset_ok \in BOOLEAN,
          outs \in OutsBefore :
          FormatCoreAllocs(node_name, front_end, hset_ok, outs)
    \/ \E node_name \in NodeNames, job_mem_limit \in {0, 77},
          step_mem_limit \in {NULL, <<0>>, <<88>>} :
          GetMem(node_name, job_mem_limit, step_mem_limit)

SpecAlloc == AllocInit /\ [][AllocNext]_vars

(***************************************************************************)
(* Claims about the allocation projector, under SpecAlloc.                 *)
(***************************************************************************)
\* sockets x cores of every node in order, from the run-length shape arrays
RECURSIVE NodeCores(_, _)
NodeCores(cred, i) ==
    IF i > Len(cred.sock_core_rep_count) THEN <<>>
    ELSE [k \in 1..cred.sock_core_rep_count[i] |->
             cred.sockets_per_node[i] * cred.cores_per_socket[i]]
         \o NodeCores(cred, i + 1)

\* the first bit of node h (0-origin): the cores of all nodes below it
SliceFirst(cred, h) == SumTo(NodeCores(cred, 1), h)

SliceSize(cred, h) == NodeCores(cred, 1)[h + 1]

\* the set bits of a bitmap within the slice of node h, renumbered from 0
SliceBitsOf(core_bitmap, cred, h) ==
    {b - SliceFirst(cred, h) :
        b \in {c \in SliceFirst(cred, h)..
                     (SliceFirst(cred, h) + SliceSize(cred, h) - 1) :
                  core_bitmap[c + 1] = 1}}

\* the cores a formatted range list names, and how many it names
CoresOf(str) == UNION {r[1]..r[2] : r \in {str.ranges[k] : k \in 1..Len(str.ranges)}}

RECURSIVE CoreCount(_, _)
CoreCount(str, n) ==
    IF n = 0 THEN 0
    ELSE (str.ranges[n][2] - str.ranges[n][1] + 1) + CoreCount(str, n - 1)

\* the call resolved the node name to index h of the job's nodes
ProjectedNode(v, h) ==
    /\ v.op = "format_core_allocs"
    /\ v.hset_ok
    /\ h = hostlist_find(v.cred.job_hostlist, v.node_name)
    /\ h >= 0
    /\ h < v.cred.job_nhosts

\* the outputs name exactly the job's and the step's cores of node h
ReportsSlice(v, h) ==
    /\ v.outs.job_alloc_cores # NULL
    /\ v.outs.step_alloc_cores # NULL
    /\ ~v.outs.job_alloc_cores[1].bracket
    /\ CoresOf(v.outs.job_alloc_cores[1])
          = SliceBitsOf(v.cred.job_core_bitmap, v.cred, h)
    /\ CoresOf(v.outs.step_alloc_cores[1])
          = SliceBitsOf(v.cred.step_core_bitmap, v.cred, h)
    /\ CoreCount(v.outs.job_alloc_cores[1],
                 Len(v.outs.job_alloc_cores[1].ranges))
          = Cardinality(SliceBitsOf(v.cred.job_core_bitmap, v.cred, h))

\* the slices of distinct nodes of the credential do not overlap
SlicesDisjoint(cred) ==
    \A h, k \in 0..(cred.job_nhosts - 1) :
        h < k => SliceFirst(cred, h) + SliceSize(cred, h) <= SliceFirst(cred, k)

\* C13 as stated: for a node at index h < job_nhosts of job_hostlist,
\* format_core_allocs reports exactly the bits of the two bitmaps in the
\* slice of node h, renumbered from 0.
C13_NodeSliceAnyBuild ==
    \A h \in 0..2 : ProjectedNode(last, h) => ReportsSlice(last, h)

\* C13 as amended: in a build without HAVE_FRONT_END, format_core_allocs
\* reports exactly the bits of job_core_bitmap and step_core_bitmap in the
\* slice [first, first + S*C) of node h, renumbered from 0, so the number of
\* cores in the string is the popcount of the slice, and slices of distinct
\* nodes do not overlap; in a build with HAVE_FRONT_END it reports the slice
\* of node 0 whatever the node name.
C13_NodeSlice ==
    /\ \A h \in 0..2 :
          ProjectedNode(last, h) /\ ~last.front_end => ReportsSlice(last, h)
    /\ /\ last.op = "format_core_allocs"
       /\ last.hset_ok
       /\ last.front_end
       /\ last.cred.job_nhosts > 0
       => ReportsSlice(last, 0)
    /\ last.op = "format_core_allocs" => SlicesDisjoint(last.cred)

C13_Witness ==
    /\ ProjectedNode(last, 2)
    /\ ~last.front_end
    /\ last.cred.sock_core_rep_count = <<1, 2>>
    /\ last.cred.job_core_bitmap = <<1, 0, 1, 1, 1>>
    /\ CoresOf(last.outs.job_alloc_cores[1]) = {0, 1}
    /\ CoresOf(last.outs.step_alloc_cores[1]) = {1}

\* the node name is not in job_hostlist, or its index is not below
\* job_nhosts
NotAJobNode(v) ==
    /\ v.op = "format_core_allocs"
    /\ \/ hostlist_find(v.cred.job_hostlist, v.node_name) < 0
       \/ hostlist_find(v.cred.job_hostlist, v.node_name) >= v.cred.job_nhosts

C15_BatchJobMem ==
    /\ last.op = "get_mem"
    /\ last.cred.step_id = SLURM_BATCH_SCRIPT
    => last.outs.job_mem_limit = last.cred.job_mem_alloc[1]

C15_Witness ==
    /\ last.op = "get_mem"
    /\ last.cred.step_id = SLURM_BATCH_SCRIPT
    /\ last.node_name = 9
    /\ last.cred.job_mem_alloc = <<512, 2048>>
    /\ last.ins.job_mem_limit = 77
    /\ last.outs.job_mem_limit = 512

\* the step's memory value for the node of the call is 0
StepValueZero(v) ==
    LET node_id == nodelist_find(v.cred.step_hostlist, v.node_name)
        rep_idx == slurm_get_rep_count_inx(v.cred.step_mem_alloc_rep_count,
                                           v.cred.step_mem_alloc_size, node_id)
    IN  /\ v.cred.step_mem_alloc # NULL
        /\ node_id >= 0
        /\ rep_idx >= 0
        /\ v.cred.step_mem_alloc[rep_idx + 1] = 0

\* C16: when slurm_cred_get_mem is called with a step_mem_limit pointer and
\* step_mem_alloc is absent, or the step value for the node is 0, then
\* *step_mem_limit equals *job_mem_limit on return, whatever *step_mem_limit
\* held on entry.
C16_StepInheritsJobMem ==
    /\ last.op = "get_mem"
    /\ last.ins.step_mem_limit # NULL
    /\ last.cred.step_mem_alloc = NULL \/ StepValueZero(last)
    => last.outs.step_mem_limit = <<last.outs.job_mem_limit>>

\* step_mem_alloc is absent and the value the caller left in *step_mem_limit
\* comes back in place of the job's limit
C16_Witness ==
    /\ last.op = "get_mem"
    /\ last.cred.step_mem_alloc = NULL
    /\ last.ins.step_mem_limit = <<88>>
    /\ last.outs.step_mem_limit = <<88>>
    /\ last.outs.job_mem_limit = 1024

\* what does hold: the step limit is the job limit when the step value for
\* the node is 0, and when step_mem_alloc is absent and *step_mem_limit was
\* 0 on entry
C16_StepInheritsWhenZero ==
    /\ last.op = "get_mem"
    /\ last.ins.step_mem_limit # NULL
    /\ \/ StepValueZero(last)
       \/ last.cred.step_mem_alloc = NULL /\ last.ins.step_mem_limit = <<0>>
    => last.outs.step_mem_limit = <<last.outs.job_mem_limit>>

(***************************************************************************)
(* SpecConf: a process that keeps the configuration it started with.  It   *)
(* initialises and finalises the interface any number of times, makes test *)
(* credentials with slurm_cred_faker, and receives broadcast credentials.  *)
(***************************************************************************)
\* cred_expire= absent, 3, 5, text that atoi() reads as 0, and 300
ConfAuthInfos == AuthInfos \cup {<<0>>, <<300>>}

ConfLaunch == SUBSET {"enable_nss_slurm", "disable_send_gids"}

Confs == [authinfo : ConfAuthInfos, launch_params : ConfLaunch]

ConfInit ==
    /\ now = 1
    /\ aborted = FALSE
    /\ g_context = FALSE
    /\ cred_restart_time = 0
    /\ cred_expire = DEFAULT_EXPIRATION_WINDOW
    /\ enable_nss_slurm = FALSE
    /\ enable_send_gids = TRUE
    /\ sbcast_cache_list = [alloc |-> FALSE, recs |-> <<>>]
    /\ credential = NULL
    /\ wire = NULL
    /\ made = NULL
    /\ sbcast_cred = NULL
    /\ swire = NULL
    /\ seeded = FALSE
    /\ char_signed = TRUE
    /\ slurm_conf \in Confs
    /\ pc = [t \in Threads |-> Idle]
    /\ wrlock = 0
    /\ g_context_lock = 0
    /\ NsInit
    /\ freed = {}
    /\ races = {}
    /\ last = [op |-> "none"]

\* cred_g_init reads the configuration of the process
ConfCredInit(plugin_ok) ==
    cred_g_init(slurm_conf.authinfo, slurm_conf.launch_params, plugin_ok)

ConfFakerArg ==
    [uid |-> 1000, gid |-> 1000, job_id |-> 42, id |-> "none",
     job_nhosts |-> 2, sock_core_rep_count |-> <<1, 1>>,
     core_array_size |-> 0]

\* a broadcast credential that outlives the run
ConfSbArg ==
    [job_id |-> 42, het_job_id |-> 7, step_id |-> 0, uid |-> 1000,
     gid |-> 1000, user_name |-> <<117>>, gids |-> <<1000>>,
     nodes |-> <<110>>, expiration |-> MaxSbTime + 1]

ConfNext ==
    \/ Tick(SbTimes)
    \/ \E ok \in BOOLEAN : ConfCredInit(ok)
    \/ \E ok \in BOOLEAN : cred_g_fini(ok)
    \/ CredFaker(ConfFakerArg, TRUE, TRUE)
    \/ CredDestroy
    \/ SbCreate(ConfSbArg, SLURM_PROTOCOL_VERSION, <<117>>, <<1000, 1001>>,
                TRUE)
    \/ SbDelete
    \/ SbPack(SLURM_PROTOCOL_VERSION)
    \/ SbUnpack(SLURM_PROTOCOL_VERSION, TRUE)
    \/ SbSent
    \/ \E block_no \in BlockNos : SbExtract(block_no, 0)

SpecConf == ConfInit /\ [][ConfNext]_vars

\* the step is a call of cred_g_init, cred_g_fini
InitCall == last'.op = "init" /\ now' = now

FiniCall == last'.op = "fini" /\ now' = now

\* C17: a cred_g_init call made while the backend is loaded, under the
\* configuration the process has had all along, returns success and leaves
\* the backend handle, the broadcast cache and its records, cred_expire, the
\* feature flags and cred_restart_time unchanged.
C17_InitIdempotent ==
    [][g_context /\ InitCall
       => /\ last'.ret = "SLURM_SUCCESS"
          /\ UNCHANGED <<g_context, sbcast_cache_list, cred_expire,
                         enable_nss_slurm, enable_send_gids,
                         cred_restart_time>>]_vars

\* disable_send_gids is configured, slurm_cred_faker switched enable_send_gids
\* on and made the live credential, and the cred_g_init that followed
\* switched it off again
C17_Witness ==
    /\ last.op = "init"
    /\ g_context
    /\ last.launch_params = {"disable_send_gids"}
    /\ credential # NULL
    /\ made # NULL
    /\ ~enable_send_gids

\* what does hold: the repeated call returns success, reloads nothing and
\* leaves everything but enable_send_gids unchanged; enable_send_gids goes
\* back to what launch_params says
C17_InitKeepsAllButSendGids ==
    [][g_context /\ InitCall
       => /\ last'.ret = "SLURM_SUCCESS"
          /\ UNCHANGED <<g_context, sbcast_cache_list, cred_expire,
                         enable_nss_slurm, cred_restart_time>>
          /\ enable_send_gids' =
                IF "enable_nss_slurm" \notin slurm_conf.launch_params
                   /\ "disable_send_gids" \in slurm_conf.launch_params
                THEN FALSE
                ELSE enable_send_gids]_vars

\* C18: cred_g_fini with a loaded backend frees the broadcast cache and nulls
\* the backend handle; the cred_g_init that loads the backend again starts
\* with an empty cache, so a credential whose record was appended before the
\* fini is rejected for a block that takes the lookup path; cred_g_fini with
\* no backend loaded returns success and changes nothing.
C18_FiniFreesCache ==
    [][/\ g_context /\ FiniCall
          => /\ ~g_context'
             /\ sbcast_cache_list' = [alloc |-> FALSE, recs |-> <<>>]
       /\ ~g_context /\ FiniCall
          => /\ last'.ret = "SLURM_SUCCESS"
             /\ UNCHANGED <<g_context_lock, now, aborted, confVars, sbcast_cache_list,
                            jobVars, sbVars, threadVars>>
       /\ ~g_context /\ g_context'
          => sbcast_cache_list' = [alloc |-> TRUE, recs |-> <<>>]
       /\ /\ last'.op = "extract"
          /\ now' = now
          /\ seeded
          /\ ~FirstBlock(last')
          /\ sbcast_cache_list.recs = <<>>
          => last'.ret = NULL]_vars

\* a verified, unexpired credential was accepted for block 1, the interface
\* was finalised and initialised again, and block 2 of it is rejected
C18_Witness ==
    /\ last.op = "extract"
    /\ seeded
    /\ g_context
    /\ last.block_no = 2
    /\ last.cred.verified
    /\ ValidIds(last.cred)
    /\ last.now <= last.cred.expiration
    /\ last.before = <<>>
    /\ last.ret = NULL

\* while the interface stays loaded the record of an accepted credential
\* stays in the cache: an empty cache with `seeded` set means fini and init
\* came in between
C18_SeededStaysCached ==
    [][seeded /\ sbcast_cache_list.recs # <<>> /\ sbcast_cache_list'.recs = <<>>
       => g_context /\ FiniCall]_vars

\* the window the configured cred_expire=N stands for
ConfiguredWindow(authinfo) ==
    IF authinfo[1] >= MIN_CRED_EXPIRE THEN authinfo[1]
    ELSE DEFAULT_EXPIRATION_WINDOW

\* C19: whatever cred_g_init calls were made, cred_expire is never below 5;
\* with cred_expire=N configured it is N when N >= 5 and the default window
\* when N < 5, and it is the default window when nothing is configured.
C19_ExpireWindow ==
    /\ cred_expire >= MIN_CRED_EXPIRE
    /\ slurm_conf.authinfo = NULL
       => cred_expire = DEFAULT_EXPIRATION_WINDOW
    /\ slurm_conf.authinfo # NULL /\ cred_restart_time # 0
       => cred_expire = ConfiguredWindow(slurm_conf.authinfo)

\* cred_expire=3 is configured and a cred_g_init call, made after the one
\* that set cred_restart_time, has left the default window
C19_Witness ==
    /\ last.op = "init"
    /\ last.authinfo = <<3>>
    /\ g_context
    /\ cred_restart_time < now
    /\ cred_expire = DEFAULT_EXPIRATION_WINDOW

(***************************************************************************)
(* Where the records of the broadcast cache come from, under SpecSbcast.   *)
(***************************************************************************)
\* the step puts a record into the list: the list grows, or holds a record
\* it did not hold
CacheGains ==
    LET old == sbcast_cache_list.recs
        new == sbcast_cache_list'.recs
    IN  \/ Len(new) > Len(old)
        \/ \E i \in 1..Len(new) : \A k \in 1..Len(old) : new[i] # old[k]

\* C20: a record enters the broadcast cache only in an extract_sbcast_cred
\* call for block 1 without FILE_BCAST_SO, of a credential whose verified
\* flag is set and whose expiration has not passed at the call; the record is
\* appended and is that credential's.  No other step adds a record.
C20_OnlyFirstBlockAppends ==
    [][CacheGains
       => /\ last'.op = "extract"
          /\ now' = now
          /\ last'.now = now
          /\ FirstBlock(last')
          /\ last'.cred.verified
          /\ now <= last'.cred.expiration
          /\ sbcast_cache_list'.recs =
                Append(sbcast_cache_list.recs,
                       [expire |-> last'.cred.expiration,
                        value |-> _sbcast_cache_hash(last'.cred.signature)])
      ]_vars

\* the cache holds two records: the second was appended at the very instant
\* its credential expires, by a credential the extract then refused for its
\* NOBODY uid
C20_Witness ==
    /\ last.op = "extract"
    /\ FirstBlock(last)
    /\ last.cred.verified
    /\ last.now = last.cred.expiration
    /\ last.cred.uid = SLURM_AUTH_NOBODY
    /\ last.ret = NULL
    /\ Len(last.before) = 1
    /\ sbcast_cache_list.recs = last.after
    /\ Len(last.after) = 2

(***************************************************************************)
(* SpecScan: a node whose broadcast cache holds records of credentials     *)
(* accepted earlier, in any order, and which extracts blocks of one        *)
(* credential while the clock runs.                                        *)
(***************************************************************************)
ScanTimes == 1..(MaxSbTime + 1)

ScanArg(e, uid) ==
    [job_id |-> 42, het_job_id |-> 7, step_id |-> 0, uid |-> uid,
     gid |-> 1000, user_name |-> <<117>>, gids |-> <<1000>>,
     nodes |-> <<110>>, expiration |-> e]

\* the credential the node unpacks from what the controller made of ScanArg
ScanCred(e, uid) ==
    LET made_cred == create_sbcast_cred(ScanArg(e, uid), SLURM_PROTOCOL_VERSION,
                                        1, FALSE, <<117>>, <<1000>>, TRUE)
        buffer == pack_sbcast_cred(made_cred[1], <<>>, SLURM_PROTOCOL_VERSION)
    IN  sbcast_p_unpack(buffer, SLURM_PROTOCOL_VERSION, TRUE)[1]

ScanCreds == {ScanCred(e, uid) : e \in ScanTimes, uid \in {1000, 1001}}

\* the record _sbcast_cache_add makes for a credential
ScanRec(sbcast) == _sbcast_cache_add(<<>>, sbcast)[1]

ScanCaches ==
    UNION {[1..n -> {ScanRec(c) : c \in ScanCreds}] : n \in 0..MaxCache}

ScanInit ==
    /\ char_signed = TRUE
    /\ now = 1
    /\ aborted = FALSE
    /\ g_context = TRUE
    /\ cred_restart_time = 1
    /\ cred_expire = DEFAULT_EXPIRATION_WINDOW
    /\ enable_nss_slurm = FALSE
    /\ enable_send_gids = TRUE
    /\ \E recs \in ScanCaches :
          sbcast_cache_list = [alloc |-> TRUE, recs |-> recs]
    /\ credential = NULL
    /\ wire = NULL
    /\ made = NULL
    /\ \E c \in ScanCreds : sbcast_cred = <<c>>
    /\ swire = NULL
    /\ seeded = FALSE
    /\ slurm_conf = [authinfo |-> NULL, launch_params |-> {}]
    /\ pc = [t \in Threads |-> Idle]
    /\ wrlock = 0
    /\ g_context_lock = 0
    /\ NsInit
    /\ freed = {}
    /\ races = {}
    /\ last = [op |-> "none"]

ScanNext ==
    \/ Tick(ScanTimes)
    \/ \E block_no \in BlockNos : SbExtract(block_no, 0)

SpecScan == ScanInit /\ [][ScanNext]_vars

\* the call took the lookup path and scanned the list
Scanned(v) ==
    /\ v.op = "extract"
    /\ ~FirstBlock(v)
    /\ v.now <= v.cred.expiration

\* the position of the first record that matches the credential, or one
\* past the end: the scan visits the records before it
MatchIndex(recs, sbcast) ==
    LET rec == ScanRec(sbcast)
        hits == {i \in 1..Len(recs) : recs[i] = rec}
    IN  IF hits = {} THEN Len(recs) + 1
        ELSE CHOOSE i \in hits : \A k \in hits : i <= k

\* C21: a cache scan at time now removes every record it visits whose expire
\* time is before now, removes no record whose expire time is after now,
\* and leaves the records it does not visit untouched.
C21_ScanPrunes ==
    Scanned(last) =>
       LET m == MatchIndex(last.before, last.cred)
           visited == SubSeq(last.before, 1, m - 1)
           rest == SubSeq(last.before, m, Len(last.before))
           nk == Len(last.after) - Len(rest)
           kept == SubSeq(last.after, 1, nk)
           Later(r) == r.expire > last.now
       IN  /\ nk >= 0
           /\ SubSeq(last.after, nk + 1, Len(last.after)) = rest
           /\ \A i \in 1..nk : kept[i].expire >= last.now
           /\ \A i \in 1..nk : \E k \in 1..(m - 1) : kept[i] = visited[k]
           /\ SelectSeq(kept, Later) = SelectSeq(visited, Later)

\* two records, expiring at 1 and at 3 and appended in that order; a lookup
\* at time 2 that matches the second has removed the first
C21_Witness ==
    /\ Scanned(last)
    /\ last.now = 2
    /\ Len(last.before) = 2
    /\ last.before[1].expire = 1
    /\ last.before[2] = ScanRec(last.cred)
    /\ last.cred.expiration = 3
    /\ last.after = <<ScanRec(last.cred)>>
    /\ sbcast_cache_list.recs = last.after
    /\ last.ret # NULL

(***************************************************************************)
(* SpecScanLive: SpecScan in which the node keeps calling                  *)
(* extract_sbcast_cred for a block that takes the lookup path.             *)
(***************************************************************************)
SpecScanLive == ScanInit /\ [][ScanNext]_vars /\ WF_vars(SbExtract(2, 0))

\* the record at position i of the cache has an expire time that has passed
StaleAt(i) ==
    /\ i <= Len(sbcast_cache_list.recs)
    /\ sbcast_cache_list.recs[i].expire < now

\* C22: in every run in which lookup extracts keep happening, each record
\* whose expire time has passed is eventually removed from the cache.
C22_StaleEventuallyRemoved ==
    \A i \in 1..(MaxCache + 1) : [](StaleAt(i) => <>~StaleAt(i))

\* C22 as it holds: a lookup removes the stale records in front of the
\* record it matches, all of them when it matches none; after it every
\* stale record left lies behind the matched record.
C22_ScanRemovesStaleInFront ==
    /\ Scanned(last)
    /\ last.now = now
    /\ sbcast_cache_list.recs = last.after
    => \A i \in 1..(MaxCache + 1) :
          StaleAt(i) => MatchIndex(last.after, last.cred) < i

\* a lookup at time 3 matched the first record and left the record behind
\* it, which expired at 1, in the cache
C22_Witness ==
    /\ Scanned(last)
    /\ last.now = 3
    /\ now = 3
    /\ last.ret # NULL
    /\ Len(last.before) = 2
    /\ last.before[1] = ScanRec(last.cred)
    /\ last.before[2].expire = 1
    /\ last.after = last.before
    /\ sbcast_cache_list.recs = last.after
    /\ StaleAt(2)

(***************************************************************************)
(* Threads on the broadcast cache and the backend handle.  cred_g_init,    *)
(* cred_g_fini and extract_sbcast_cred are taken apart at their accesses   *)
(* to g_context and sbcast_cache_list; only cred_g_init takes              *)
(* g_context_lock.  pc[t].pos is the index of the record list_next will    *)
(* hand to thread t, pc[t].visited whether it has handed out one already.  *)
(***************************************************************************)
CacheThreads == {1, 2}

CacheThreadCreds == {ScanCred(3, 1000), ScanCred(3, 1001)}

\* a record that is stale at time 2, alone or in front of a live one
CacheThreadCaches ==
    {<<>>, <<ScanRec(ScanCred(1, 1000))>>,
     <<ScanRec(ScanCred(1, 1000)), ScanRec(ScanCred(3, 1000))>>}

\* the other threads that are in the middle of a scan of the list
Scanning(t) ==
    {u \in Threads \ {t} : pc[u].at = "scan" /\ pc[u].visited}

\* the other threads that are between the test and the last line of
\* cred_g_fini
Finishing(t) ==
    {u \in Threads \ {t} : pc[u].at \in {"fini_free", "fini_null"}}

\* extract_sbcast_cred up to its first access to the list
SbThreadEnter(t, sbcast, block_no, flags) ==
    /\ ~aborted
    /\ pc[t] = Idle
    /\ \/ ~g_context /\ Abort("extract_sbcast_cred")
       \/ /\ g_context
          /\ now <= sbcast.expiration
          /\ LET first == block_no = 1 /\ ~FlagSet(flags, FILE_BCAST_SO)
             IN  /\ first => sbcast.verified
                 /\ pc' = [pc EXCEPT ![t] =
                              [op |-> "extract",
                               at |-> IF first THEN "add" ELSE "scan",
                               locked |-> FALSE, cred |-> sbcast, pos |-> 1,
                               visited |-> FALSE, dangling |-> FALSE]]
          /\ UNCHANGED <<nsVars, wrlock, freed, races, g_context_lock, now, aborted,
                         confVars, sbcast_cache_list, jobVars, sbVars, last>>

\* _sbcast_cache_add: list_append.  A list freed under the thread is a
\* dangling pointer: the call faults or works on what is there now.
SbThreadAdd(t) ==
    /\ ~aborted
    /\ pc[t].at = "add"
    /\ \/ /\ ~sbcast_cache_list.alloc \/ pc[t].dangling
          /\ Abort("list_append")
       \/ /\ sbcast_cache_list.alloc
          /\ Len(sbcast_cache_list.recs) <= MaxCache
          /\ sbcast_cache_list' =
                [sbcast_cache_list EXCEPT
                    !.recs = _sbcast_cache_add(@, pc[t].cred)]
          /\ pc' = [pc EXCEPT ![t] = Idle]
          /\ last' = [op |-> "cache_add", thread |-> t,
                      scanning |-> Scanning(t)]
          /\ UNCHANGED <<nsVars, wrlock, freed, races, g_context_lock, now, aborted,
                         confVars, jobVars, sbVars>>

\* one turn of the while ((next_cache_rec = list_next(sbcast_iter))) loop
SbThreadNext(t) ==
    /\ ~aborted
    /\ pc[t].at = "scan"
    /\ \/ /\ ~sbcast_cache_list.alloc \/ pc[t].dangling
          /\ Abort("list_next")
       \/ /\ sbcast_cache_list.alloc
          /\ LET recs == sbcast_cache_list.recs
                 i == pc[t].pos
                 sig_num == _sbcast_cache_hash(pc[t].cred.signature)
             IN  IF i > Len(recs)
                 THEN /\ pc' = [pc EXCEPT ![t] = Idle]
                      /\ last' = [op |-> "cache_scan", thread |-> t,
                                  cache_match_found |-> FALSE]
                      /\ UNCHANGED sbcast_cache_list
                 ELSE IF /\ recs[i].expire = pc[t].cred.expiration
                         /\ recs[i].value = sig_num
                 THEN /\ pc' = [pc EXCEPT ![t] = Idle]
                      /\ last' = [op |-> "cache_scan", thread |-> t,
                                  cache_match_found |-> TRUE]
                      /\ UNCHANGED sbcast_cache_list
                 ELSE IF recs[i].expire <= now
                 THEN /\ sbcast_cache_list' =
                            [sbcast_cache_list EXCEPT
                                !.recs = RemoveAt(recs, i)]
                      /\ pc' = [u \in Threads |->
                                  IF u = t
                                  THEN [pc[t] EXCEPT !.visited = TRUE]
                                  ELSE IF pc[u].at = "scan" /\ pc[u].pos > i
                                  THEN [pc[u] EXCEPT !.pos = @ - 1]
                                  ELSE pc[u]]
                      /\ last' = [op |-> "cache_purge", thread |-> t,
                                  scanning |-> Scanning(t)]
                 ELSE /\ pc' = [pc EXCEPT ![t].pos = i + 1,
                                          ![t].visited = TRUE]
                      /\ UNCHANGED <<sbcast_cache_list, last>>
          /\ UNCHANGED <<nsVars, wrlock, freed, races, g_context_lock, now, aborted,
                         confVars, jobVars, sbVars>>

\* cred_g_init up to slurm_mutex_lock; the configuration has no token for it
GInitLock(t) ==
    /\ ~aborted
    /\ pc[t] = Idle
    /\ g_context_lock = 0
    /\ g_context_lock' = t
    /\ pc' = [pc EXCEPT ![t] = [op |-> "init", at |-> "init_locked",
                                locked |-> FALSE]]
    /\ UNCHANGED <<nsVars, wrlock, freed, races, now, aborted, confVars,
                   sbcast_cache_list, jobVars, sbVars, last>>

\* the thread returns from cred_g_init: finis that have begun see it
InitReturned(t) ==
    [u \in Threads |->
        IF u = t THEN Idle
        ELSE IF u \in Finishing(t) THEN [pc[u] EXCEPT !.init_ok = TRUE]
        ELSE pc[u]]

\* if (g_context) goto done; g_context = plugin_context_create(...)
GInitCreate(t, plugin_ok) ==
    /\ ~aborted
    /\ pc[t].at = "init_locked"
    /\ IF g_context
       THEN /\ g_context_lock' = 0
            /\ pc' = InitReturned(t)
            /\ last' = [op |-> "init", thread |-> t,
                        ret |-> "SLURM_SUCCESS"]
            /\ UNCHANGED g_context
       ELSE IF ~plugin_ok
       THEN /\ g_context_lock' = 0
            /\ pc' = [pc EXCEPT ![t] = Idle]
            /\ last' = [op |-> "init", thread |-> t, ret |-> "SLURM_ERROR"]
            /\ UNCHANGED g_context
       ELSE /\ g_context' = TRUE
            /\ pc' = [pc EXCEPT ![t].at = "init_list"]
            /\ UNCHANGED <<g_context_lock, last>>
    /\ UNCHANGED <<nsVars, wrlock, freed, races, now, aborted, cred_restart_time,
                   cred_expire, enable_nss_slurm, enable_send_gids,
                   char_signed, slurm_conf, sbcast_cache_list, jobVars,
                   sbVars>>

\* sbcast_cache_list = list_create(xfree_ptr); unlock; return
GInitList(t) ==
    /\ ~aborted
    /\ pc[t].at = "init_list"
    /\ sbcast_cache_list' = [alloc |-> TRUE, recs |-> <<>>]
    /\ g_context_lock' = 0
    /\ pc' = InitReturned(t)
    /\ last' = [op |-> "init", thread |-> t, ret |-> "SLURM_SUCCESS"]
    /\ UNCHANGED <<nsVars, wrlock, freed, races, now, aborted, confVars, jobVars,
                   sbVars>>

\* cred_g_fini: if (!g_context) return SLURM_SUCCESS
GFiniCheck(t) ==
    /\ ~aborted
    /\ pc[t] = Idle
    /\ IF ~g_context
       THEN /\ last' = [op |-> "fini", thread |-> t, init_ok |-> FALSE,
                        ret |-> "SLURM_SUCCESS"]
            /\ UNCHANGED pc
       ELSE /\ pc' = [pc EXCEPT ![t] = [op |-> "fini", at |-> "fini_free",
                                        locked |-> FALSE,
                                        init_ok |-> FALSE]]
            /\ UNCHANGED last
    /\ UNCHANGED <<nsVars, wrlock, freed, races, g_context_lock, now, aborted,
                   confVars, sbcast_cache_list, jobVars, sbVars>>

\* FREE_NULL_LIST(sbcast_cache_list): threads inside the list keep a pointer
\* to freed memory
GFiniFree(t) ==
    /\ ~aborted
    /\ pc[t].at = "fini_free"
    /\ sbcast_cache_list' = [alloc |-> FALSE, recs |-> <<>>]
    /\ pc' = [u \in Threads |->
                IF u = t THEN [pc[t] EXCEPT !.at = "fini_null"]
                ELSE IF pc[u].at \in {"add", "scan"}
                        /\ sbcast_cache_list.alloc
                THEN [pc[u] EXCEPT !.dangling = TRUE]
                ELSE pc[u]]
    /\ UNCHANGED <<nsVars, wrlock, freed, races, g_context_lock, now, aborted,
                   confVars, jobVars, sbVars, last>>

\* rc = plugin_context_destroy(g_context); g_context = NULL; return rc
GFiniNull(t, destroy_ok) ==
    /\ ~aborted
    /\ pc[t].at = "fini_null"
    /\ g_context' = FALSE
    /\ pc' = [pc EXCEPT ![t] = Idle]
    /\ last' = [op |-> "fini", thread |-> t, init_ok |-> pc[t].init_ok,
                ret |-> IF destroy_ok THEN "SLURM_SUCCESS"
                        ELSE "SLURM_ERROR"]
    /\ UNCHANGED <<nsVars, wrlock, freed, races, g_context_lock, now, aborted,
                   cred_restart_time, cred_expire, enable_nss_slurm,
                   enable_send_gids, char_signed, slurm_conf,
                   sbcast_cache_list, jobVars, sbVars>>

CacheThreadInit ==
    /\ char_signed = TRUE
    /\ now = 2
    /\ aborted = FALSE
    /\ g_context = TRUE
    /\ cred_restart_time = 1
    /\ cred_expire = DEFAULT_EXPIRATION_WINDOW
    /\ enable_nss_slurm = FALSE
    /\ enable_send_gids = TRUE
    /\ \E recs \in CacheThreadCaches :
          sbcast_cache_list = [alloc |-> TRUE, recs |-> recs]
    /\ credential = NULL
    /\ wire = NULL
    /\ made = NULL
    /\ sbcast_cred = NULL
    /\ swire = NULL
    /\ seeded = FALSE
    /\ slurm_conf = [authinfo |-> NULL, launch_params |-> {}]
    /\ pc = [t \in Threads |-> Idle]
    /\ wrlock = 0
    /\ g_context_lock = 0
    /\ NsInit
    /\ freed = {}
    /\ races = {}
    /\ last = [op |-> "none"]

CacheThreadNext ==
    \E t \in CacheThreads :
        \/ \E c \in CacheThreadCreds, block_no \in BlockNos :
              SbThreadEnter(t, c, block_no, 0)
        \/ SbThreadAdd(t)
        \/ SbThreadNext(t)
        \/ GInitLock(t)
        \/ \E ok \in BOOLEAN : GInitCreate(t, ok)
        \/ GInitList(t)
        \/ GFiniCheck(t)
        \/ GFiniFree(t)
        \/ \E ok \in BOOLEAN : GFiniNull(t, ok)

SpecCacheThreads == CacheThreadInit /\ [][CacheThreadNext]_vars

\* C23: accesses to the broadcast cache by concurrent extract_sbcast_cred
\* calls are serialized: an append from a block-1 extract or a purge from a
\* scan never comes in the middle of another thread's scan of the list.
C23_CacheAccessSerialized ==
    last.op \in {"cache_add", "cache_purge"} => last.scanning = {}

\* thread 1 appended a record while thread 2, which had passed the first
\* record of the list, was still scanning
C23_Witness ==
    /\ last.op = "cache_add"
    /\ last.thread = 1
    /\ last.scanning = {2}
    /\ pc[2].at = "scan"
    /\ pc[2].pos = 2
    /\ Len(sbcast_cache_list.recs) = 2

\* C24: the backend handle and the cache list are changed only by a thread
\* that holds the global mutex, in cred_g_fini as in cred_g_init; no
\* interleaving of init, fini and extract calls reaches a state where the
\* handle is non-null while the list has been freed, nor one where an init
\* returned success after a fini began and the handle ends up null.
C24_HandleAndCacheUnderMutex ==
    /\ \A t \in Threads :
          pc[t].at \in {"init_list", "fini_free", "fini_null"}
          => g_context_lock = t
    /\ ~(g_context /\ ~sbcast_cache_list.alloc /\ g_context_lock = 0)
    /\ ~(last.op = "fini" /\ last.init_ok /\ ~g_context)

\* thread 1 has returned from cred_g_fini, during which a cred_g_init of
\* another thread returned success: every thread is back, nobody holds the
\* mutex, and the handle is null
C24_Witness ==
    /\ last.op = "fini"
    /\ last.thread = 1
    /\ last.init_ok
    /\ ~g_context
    /\ ~sbcast_cache_list.alloc
    /\ g_context_lock = 0
    /\ \A t \in Threads : pc[t] = Idle

(***************************************************************************)
(* SpecRestart: a process that initialises and finalises the interface at  *)
(* any time, the first time included.                                      *)
(***************************************************************************)
RestartTimes == 1..(MaxSbTime + 1)

\* time passes, whether or not the interface was initialised
ClockTick(times) ==
    /\ now + 1 \in times
    /\ now' = now + 1
    /\ UNCHANGED <<threadVars, aborted, confVars, sbcast_cache_list, jobVars,
                   sbVars, last>>

RestartNext ==
    \/ ClockTick(RestartTimes)
    \/ \E a \in AuthInfos, l \in LifeLaunch, ok \in BOOLEAN :
          cred_g_init(a, l, ok)
    \/ \E ok \in BOOLEAN : cred_g_fini(ok)

SpecRestart == Init /\ [][RestartNext]_vars

\* C25: the first cred_g_init call sets cred_restart_time to the time of the
\* call, whether or not it loads the backend; no other step sets it, and no
\* later cred_g_init or cred_g_fini changes it.
C25_RestartTimeFixed ==
    [][/\ cred_restart_time = 0 /\ InitCall => cred_restart_time' = now
       /\ cred_restart_time = 0 /\ ~InitCall => cred_restart_time' = 0
       /\ cred_restart_time # 0 => cred_restart_time' = cred_restart_time
      ]_vars

\* cred_g_init was not called before time 2; the call made then failed to
\* load the backend and cred_restart_time is 2, also one instant later
C25_Witness ==
    /\ cred_restart_time = 2
    /\ now = 3
    /\ last.op = "init"
    /\ last.ret = "SLURM_ERROR"
    /\ ~g_context

(***************************************************************************)
(* SpecNode: a node daemon that starts while a job credential, made by the *)
(* controller at time 1, is on its way to it.                              *)
(***************************************************************************)
NodeArgs ==
    [uid : {1000}, gid : {1000}, job_id : {42}, id : {"none", "caller"},
     job_nhosts : {2}, sock_core_rep_count : {<<1, 1>>},
     core_array_size : {0}]

\* what the controller sent: slurm_cred_create at time 1, then slurm_cred_pack
NodeWire(arg) ==
    LET r == slurm_cred_create(arg, TRUE, SLURM_PROTOCOL_VERSION, TRUE, TRUE,
                               1, TRUE)
    IN  [bytes |-> slurm_cred_pack(r.cred[1], <<>>, SLURM_PROTOCOL_VERSION),
         made |-> NULL, tampered |-> FALSE]

NodeInit ==
    /\ now = 1
    /\ aborted = FALSE
    /\ g_context = FALSE
    /\ cred_restart_time = 0
    /\ cred_expire = DEFAULT_EXPIRATION_WINDOW
    /\ enable_nss_slurm = FALSE
    /\ enable_send_gids = TRUE
    /\ sbcast_cache_list = [alloc |-> FALSE, recs |-> <<>>]
    /\ credential = NULL
    /\ \E arg \in NodeArgs : wire = <<NodeWire(arg)>>
    /\ made = NULL
    /\ sbcast_cred = NULL
    /\ swire = NULL
    /\ seeded = FALSE
    /\ char_signed = TRUE
    /\ slurm_conf = [authinfo |-> NULL, launch_params |-> {}]
    /\ pc = [t \in Threads |-> Idle]
    /\ wrlock = 0
    /\ g_context_lock = 0
    /\ NsInit
    /\ freed = {}
    /\ races = {}
    /\ last = [op |-> "none"]

NodeNext ==
    \/ ClockTick(RestartTimes)
    \/ \E ok \in BOOLEAN : cred_g_init(NULL, {}, ok)
    \/ \E ok \in BOOLEAN : cred_g_fini(ok)
    \/ \E pv \in ProtocolVersions : CredUnpack(pv)
    \/ \E e \in UnlockErrnos : CredVerify(e)
    \/ CredUnlockArgs

SpecNode == NodeInit /\ [][NodeNext]_vars

\* C26: slurm_cred_verify does not accept a job credential whose ctime is
\* earlier than cred_restart_time.
C26_RestartLowerBound ==
    /\ last.op = "verify"
    /\ last.cred.ctime < cred_restart_time
    => last.ret = NULL

\* the daemon called cred_g_init first at time 2; the credential made at
\* time 1 is verified and not expired, and slurm_cred_verify returns its arg
C26_Witness ==
    /\ last.op = "verify"
    /\ last.cred.ctime = 1
    /\ last.cred.verified
    /\ cred_restart_time = 2
    /\ last.now <= last.cred.ctime + last.cred_expire
    /\ last.ret = last.cred.arg
    /\ last.ret # NULL

(***************************************************************************)
(* SpecSize: slurm_cred_create over run-length arrays of every shape.      *)
(***************************************************************************)
MaxReps == 3

SizeHosts == 0..3

\* arrays of up to MaxReps run lengths
SizeReps == UNION {[1..n -> 0..2] : n \in 1..MaxReps}

\* the array covers the job's nodes, as its builder guarantees
SizeArgs ==
    {a \in [uid : {SLURM_AUTH_NOBODY, 1000}, gid : {1000}, job_id : {42},
            id : {"caller"}, job_nhosts : SizeHosts,
            sock_core_rep_count : {NULL} \cup SizeReps,
            core_array_size : {0}] :
        \/ a.sock_core_rep_count = NULL
        \/ SumSeq(a.sock_core_rep_count) >= a.job_nhosts}

SizeCreate(arg) == CredCreate(arg, TRUE, SLURM_PROTOCOL_VERSION, TRUE, TRUE)

SizeNext ==
    \/ \E ok \in BOOLEAN : cred_g_init(NULL, {}, ok)
    \/ \E ok \in BOOLEAN : cred_g_fini(ok)
    \/ \E arg \in SizeArgs : SizeCreate(arg)
    \/ CredDestroy

SpecSize == Init /\ [][SizeNext]_vars

\* slurm_cred_create got past the uid and gid tests
SizeComputed ==
    /\ last.op = "create"
    /\ last.arg.uid # SLURM_AUTH_NOBODY
    /\ last.arg.gid # SLURM_AUTH_NOBODY

\* the indices k (from 0) at which the run lengths up to k cover job_nhosts
Covering(rep, job_nhosts) ==
    {k \in 0..(Len(rep) - 1) : SumTo(rep, k + 1) >= job_nhosts}

Smallest(S) == CHOOSE k \in S : \A j \in S : k <= j

IdentArgs ==
    [uid : {SLURM_AUTH_NOBODY, 1000}, gid : {SLURM_AUTH_NOBODY, 1000},
     job_id : {42}, id : {"none", "caller"}, job_nhosts : {2},
     sock_core_rep_count : {<<1, 1>>}, core_array_size : {0}]

IdentLaunch ==
    {{}, {"disable_send_gids"}, {"enable_nss_slurm"},
     {"enable_nss_slurm", "disable_send_gids"}}

IdentNext ==
    \/ \E l \in IdentLaunch, ok \in BOOLEAN : cred_g_init(NULL, l, ok)
    \/ \E ok \in BOOLEAN : cred_g_fini(ok)
    \/ \E arg \in IdentArgs, pv \in ProtocolVersions, f \in BOOLEAN,
          b \in BOOLEAN : CredCreate(arg, TRUE, pv, f, b)
    \/ CredDestroy

SpecIdent == Init /\ [][IdentNext]_vars

\* what a call of slurm_cred_create with an initialised interface, on an arg
\* that passes the uid and gid tests, does about arg.id
IdHandled(arg, fetch_ok) ==
    LET enrich == enable_nss_slurm \/ enable_send_gids
        ret == last'.ret
    IN  /\ last'.arg_out.id = arg.id
        /\ arg.id = "none" /\ enrich /\ fetch_ok =>
               /\ last'.backend
               /\ ret # NULL => ret[1].arg[1].id = "fetched"
        /\ arg.id = "none" /\ enrich /\ ~fetch_ok =>
               /\ ret = NULL
               /\ ~last'.backend
        /\ arg.id = "none" /\ ~enrich =>
               /\ last'.backend
               /\ ret # NULL => ret[1].arg[1].id = "none"
        /\ arg.id = "caller" =>
               /\ last'.backend
               /\ ret # NULL => ret[1].arg[1].id = "caller"

\* C28: slurm_cred_create leaves arg.id as it found it.  With id unset and
\* an enrichment flag on, the identity is fetched, the backend is given the
\* fetched identity and id is unset again on return; when the fetch fails
\* create returns NULL and the backend is not called; a caller's id, and an
\* unset id with both flags off, reach the backend as they are.
C28_IdLeftAsFound ==
    [][\A arg \in IdentArgs, pv \in ProtocolVersions, f \in BOOLEAN,
          b \in BOOLEAN :
          /\ g_context
          /\ arg.uid # SLURM_AUTH_NOBODY
          /\ arg.gid # SLURM_AUTH_NOBODY
          /\ CredCreate(arg, TRUE, pv, f, b)
          => IdHandled(arg, f)]_vars

\* a create with id unset and enable_send_gids on: the credential carries
\* the fetched identity and the caller's arg has id unset again
C28_Witness ==
    /\ last.op = "create"
    /\ last.arg.id = "none"
    /\ enable_send_gids
    /\ last.ret # NULL
    /\ last.ret[1].arg[1].id = "fetched"
    /\ last.arg_out.id = "none"

\* C29: slurm_cred_pack never writes credential bytes when the requested
\* protocol version differs from the credential's buf_version; the output
\* buffer is left as it was (empty, here).
C29_PackRejectsMismatch ==
    /\ last.op = "pack"
    /\ last.cred.buf_version # last.protocol_version
    => last.out = <<>>

\* a build without assertions: a credential packed at one version is asked
\* for at another, and its cached bytes are in the output buffer
C29_Witness ==
    /\ last.op = "pack"
    /\ last.cred.buf_version # last.protocol_version
    /\ last.out = last.cred.buffer
    /\ last.out # <<>>
    /\ ~aborted

\* C30: the bundle a successful extract_sbcast_cred returns carries the
\* credential's job_id, het_job_id, step_id, uid, gid, user_name, gids and
\* nodes.
C30_ExtractCopiesArg ==
    /\ last.op = "extract"
    /\ last.ret # NULL
    => /\ last.ret[1].job_id = last.cred.jobid
       /\ last.ret[1].het_job_id = last.cred.het_job_id
       /\ last.ret[1].step_id = last.cred.step_id
       /\ last.ret[1].uid = last.cred.uid
       /\ last.ret[1].gid = last.cred.gid
       /\ last.ret[1].user_name = last.cred.user_name
       /\ last.ret[1].gids = last.cred.gids
       /\ last.ret[1].nodes = last.cred.nodes

\* a credential of a heterogeneous job component (het_job_id 7) is
\* extracted: the bundle has the credential's other fields and het_job_id 0
C30_Witness ==
    /\ last.op = "extract"
    /\ last.ret # NULL
    /\ last.cred.het_job_id = 7
    /\ last.ret[1].het_job_id = 0
    /\ last.ret[1].job_id = last.cred.jobid
    /\ last.ret[1].step_id = last.cred.step_id
    /\ last.ret[1].uid = last.cred.uid
    /\ last.ret[1].gid = last.cred.gid
    /\ last.ret[1].user_name = last.cred.user_name
    /\ last.ret[1].gids = last.cred.gids
    /\ last.ret[1].nodes = last.cred.nodes

\* the first n bytes of what the last pack_sbcast_cred wrote, n being what
\* is left when the length-prefixed signature is taken off the end
PackedBody ==
    Slice(last.out, 1, Len(last.out) - Len(last.cred.signature) - 1)

PackedTail ==
    Slice(last.out, Len(last.out) - Len(last.cred.signature),
          Len(last.cred.signature) + 1)

\* C31: pack_sbcast_cred writes ctime, expiration, jobid, het_job_id,
\* step_id, uid, gid, user_name, gids, nodes and then the signature; the
\* credential's signature is the signer's answer on the bytes that precede
\* the signature in that output, so the signature is not among the signed
\* bytes.
C31_SignedBodyThenSignature ==
    last.op = "sb_pack" =>
        LET c == last.cred
        IN  /\ PackedBody = <<c.ctime, c.expiration, c.jobid, c.het_job_id,
                              c.step_id, c.uid, c.gid>>
                            \o <<Len(c.user_name)>> \o c.user_name
                            \o <<Len(c.gids)>> \o c.gids
                            \o <<Len(c.nodes)>> \o c.nodes
            /\ PackedTail = <<Len(c.signature)>> \o c.signature
            /\ c.signature = cred_sign(PackedBody)

\* a credential made by create_sbcast_cred, with the looked-up groups, has
\* been packed
C31_Witness ==
    /\ last.op = "sb_pack"
    /\ ~last.cred.verified
    /\ last.cred.gids = <<1000, 1001>>
    /\ last.cred.signature = cred_sign(PackedBody)
    /\ Len(last.out) = Len(PackedBody) + 1 + Len(last.cred.signature)

\* C32: an extract_sbcast_cred call that returns NULL leaves no new record
\* in the broadcast cache, so that records are appended only by the block-1
\* extracts that return an arg bundle.
C32_NullExtractAddsNothing ==
    /\ last.op = "extract"
    /\ last.ret = NULL
    => /\ Len(last.after) <= Len(last.before)
       /\ \A i \in 1..Len(last.after) :
             \E k \in 1..Len(last.before) : last.after[i] = last.before[k]

\* a verified, unexpired credential whose uid is NOBODY, extracted for block
\* 1: the call returns NULL and the cache has one record more, the
\* credential's
C32_Witness ==
    /\ last.op = "extract"
    /\ last.block_no = 1
    /\ ~FlagSet(last.flags, FILE_BCAST_SO)
    /\ last.cred.verified
    /\ last.cred.uid = SLURM_AUTH_NOBODY
    /\ last.now <= last.cred.expiration
    /\ last.ret = NULL
    /\ last.after = _sbcast_cache_add(last.before, last.cred)

(***************************************************************************)
(* SpecWalk: format_core_allocs on credentials with run-length shape       *)
(* arrays of every form, some shapes without cores, some runs empty.       *)
(***************************************************************************)
WalkHosts == 1..3

\* the job core bitmap has a bit for every core of every node of the arrays
WalkBits(rep, sockets, cores) ==
    SumSeq([k \in 1..Len(rep) |-> sockets[k] * cores[k] * rep[k]])

WalkShape(n, rep, cores) ==
    [job_nhosts |-> n, sock_core_rep_count |-> rep,
     sockets_per_node |-> [k \in 1..Len(rep) |-> 1 + (k % 2)],
     cores_per_socket |-> cores,
     bits |-> WalkBits(rep, [k \in 1..Len(rep) |-> 1 + (k % 2)], cores)]

\* runs that cover the job's nodes, with 0 to 2 cores per socket
WalkShapes ==
    UNION {{WalkShape(n, rep, cores) :
               n \in {m \in WalkHosts : SumSeq(rep) >= m},
               cores \in [1..Len(rep) -> 0..2]} :
           rep \in SizeReps}

\* the credential as slurm_cred_create leaves it: core_array_size computed
WalkArgs ==
    {LET a == AllocArg(shape, [i \in 1..shape.bits |-> 1],
                       [i \in 1..shape.bits |-> i % 2], 0,
                       [alloc |-> <<1024>>, rep_count |-> <<3>>],
                       [alloc |-> NULL, rep_count |-> NULL], <<1, 2, 3>>)
     IN  a @@ [core_array_size |-> core_array_size(a)] :
        shape \in WalkShapes}

WalkInit ==
    /\ now = 1
    /\ aborted = FALSE
    /\ g_context = TRUE
    /\ cred_restart_time = 1
    /\ cred_expire = DEFAULT_EXPIRATION_WINDOW
    /\ enable_nss_slurm = FALSE
    /\ enable_send_gids = TRUE
    /\ sbcast_cache_list = [alloc |-> TRUE, recs |-> <<>>]
    /\ \E a \in WalkArgs :
          credential = <<[slurm_cred_alloc(FALSE) EXCEPT !.arg = <<a>>,
                                                        !.verified = TRUE]>>
    /\ wire = NULL
    /\ made = NULL
    /\ sbcast_cred = NULL
    /\ swire = NULL
    /\ seeded = FALSE
    /\ char_signed = TRUE
    /\ slurm_conf = [authinfo |-> NULL, launch_params |-> {}]
    /\ pc = [t \in Threads |-> Idle]
    /\ wrlock = 0
    /\ g_context_lock = 0
    /\ NsInit
    /\ freed = {}
    /\ races = {}
    /\ last = [op |-> "none"]

WalkOuts ==
    [job_alloc_cores |-> NULL, step_alloc_cores |-> NULL,
     job_mem_limit |-> 0, step_mem_limit |-> <<0>>]

WalkNext ==
    \E node_name \in NodeNames, front_end \in BOOLEAN :
        FormatCoreAllocs(node_name, front_end, TRUE, WalkOuts)

SpecWalk == WalkInit /\ [][WalkNext]_vars

\* the host index format_core_allocs works with in the last call
WalkHostIndex ==
    IF last.front_end THEN 0
    ELSE hostlist_find(last.cred.job_hostlist, last.node_name)

\* the last call walked the shape arrays of a credential whose first
\* core_array_size runs cover the job's nodes
Walked ==
    /\ last.op = "format_core_allocs"
    /\ last.hset_ok
    /\ WalkHostIndex >= 0
    /\ WalkHostIndex < last.cred.job_nhosts
    /\ last.cred.core_array_size <= Len(last.cred.sock_core_rep_count)
    /\ SumTo(last.cred.sock_core_rep_count, last.cred.core_array_size)
          >= last.cred.job_nhosts

\* C33: for a credential whose sock_core_rep_count entries over
\* [0, core_array_size) sum to at least job_nhosts and a host index in
\* [0, job_nhosts), the walk of format_core_allocs stops at an index below
\* core_array_size, and i_first_bit < i_last_bit <= size of the job core
\* bitmap when the node's shape has at least one core.
C33_WalkWithinArrays ==
    Walked =>
        LET c == last.cred
            i == CoreSliceIndex(c, 0, WalkHostIndex + 1)
            slice == CoreSliceLoop(c, 0, WalkHostIndex + 1, 0)
        IN  /\ i < c.core_array_size
            /\ c.sockets_per_node[i + 1] * c.cores_per_socket[i + 1] >= 1
               => /\ slice.i_first_bit < slice.i_last_bit
                  /\ slice.i_last_bit <= Len(c.job_core_bitmap)

\* the third node of a job whose runs are 0, 2, 1: the walk passes an empty
\* run and a run of two and stops at index 2 of 3, on a slice of two cores
C33_Witness ==
    /\ Walked
    /\ last.cred.sock_core_rep_count = <<0, 2, 1>>
    /\ last.cred.cores_per_socket = <<1, 1, 1>>
    /\ last.cred.job_nhosts = 3
    /\ WalkHostIndex = 2
    /\ CoreSliceIndex(last.cred, 0, 3) = 2
    /\ CoreSliceLoop(last.cred, 0, 3, 0) = [i_first_bit |-> 2, i_last_bit |-> 4]
    /\ last.outs.job_alloc_cores # NULL

(***************************************************************************)
(* The job container plugin (job_container_tmpfs.c): container_p_create.   *)
(* The caller sets the job's directories up, forks, and the two processes  *)
(* take turns through two process-shared semaphores.  The outcome of every *)
(* system call is a choice of the environment.                             *)
(***************************************************************************)
SLURM_ERROR == -1

NsUnchanged ==
    UNCHANGED <<now, aborted, confVars, sbcast_cache_list, jobVars, sbVars,
                pc, wrlock, freed, races, g_context_lock, last>>

\* what can happen up to and including fork()
SetupOutcomes ==
    {"native_cray", "paths_fail", "mkdir_fail", "exists_active",
     "exists_inactive", "open_fail", "initscript_fail", "src_bind_fail",
     "mmap_fail", "sem_init_fail", "fork_fail", "forked"}

\* container_p_create from its entry to fork(): the first failure is the
\* `outcome`, and the code goes to the return, to exit2 or to exit1 (whose
\* sem_destroy and munmap calls change nothing the model keeps)
NsSetup(outcome) ==
    /\ parent = "idle"
    /\ IF outcome = "native_cray"
       THEN /\ parent' = "returned"
            /\ returned' = <<0>>
            /\ UNCHANGED <<rc, job_mount, child>>
       ELSE IF outcome \in {"paths_fail", "mkdir_fail"}
       THEN /\ parent' = "returned"
            /\ returned' = <<-1>>
            /\ UNCHANGED <<rc, job_mount, child>>
       ELSE IF outcome = "exists_active"
       THEN /\ parent' = "exit2"
            /\ rc' = 0
            /\ job_mount' = "old"
            /\ UNCHANGED <<returned, child>>
       ELSE IF outcome = "exists_inactive"
       THEN /\ parent' = "exit2"
            /\ rc' = -1
            /\ job_mount' = "old"
            /\ UNCHANGED <<returned, child>>
       ELSE IF outcome = "initscript_fail"
       THEN /\ parent' = "exit2"
            /\ rc' = 1
            /\ job_mount' = "new"
            /\ UNCHANGED <<returned, child>>
       ELSE IF outcome \in {"open_fail", "src_bind_fail", "mmap_fail"}
       THEN /\ parent' = "exit2"
            /\ rc' = -1
            /\ job_mount' = "new"
            /\ UNCHANGED <<returned, child>>
       ELSE IF outcome \in {"sem_init_fail", "fork_fail"}
       THEN /\ parent' = "exit1"
            /\ rc' = -1
            /\ job_mount' = "new"
            /\ UNCHANGED <<returned, child>>
       ELSE /\ parent' = "sem_wait"
            /\ child' = "unshare"
            /\ rc' = 0
            /\ job_mount' = "new"
            /\ UNCHANGED returned
    /\ UNCHANGED <<sem1, sem2, child_rc, done>>
    /\ NsUnchanged

\* child: rc = unshare(CLONE_NEWNS)
ChildUnshare(ok) ==
    /\ child = "unshare"
    /\ IF ok
       THEN /\ child' = "sem_post"
            /\ done' = done \cup {"unshare"}
            /\ UNCHANGED child_rc
       ELSE /\ child' = "child_exit"
            /\ child_rc' = -1
            /\ UNCHANGED done
    /\ UNCHANGED <<sem1, sem2, parent, rc, job_mount, returned>>
    /\ NsUnchanged

\* child: sem_post(sem1)
ChildPost(ok) ==
    /\ child = "sem_post"
    /\ IF ok
       THEN /\ child' = "sem_wait"
            /\ sem1' = sem1 + 1
            /\ UNCHANGED child_rc
       ELSE /\ child' = "child_exit"
            /\ child_rc' = -1
            /\ UNCHANGED sem1
    /\ UNCHANGED <<sem2, parent, rc, job_mount, done, returned>>
    /\ NsUnchanged

\* child: sem_wait(sem2) returns 0
ChildWait ==
    /\ child = "sem_wait"
    /\ sem2 > 0
    /\ sem2' = sem2 - 1
    /\ child' = "mount_tmp"
    /\ UNCHANGED <<sem1, parent, rc, child_rc, job_mount, done, returned>>
    /\ NsUnchanged

\* child: sem_wait(sem2) returns -1 (a signal, or the parent has destroyed
\* the semaphore under the waiter and the library reports it)
ChildWaitFail ==
    /\ child = "sem_wait"
    /\ child' = "child_exit"
    /\ child_rc' = -1
    /\ UNCHANGED <<sem1, sem2, parent, rc, job_mount, done, returned>>
    /\ NsUnchanged

\* child: _mount_private_tmp(src_bind)
ChildMountTmp(ok) ==
    /\ child = "mount_tmp"
    /\ done' = done \cup {"mount_tmp"}
    /\ IF ok
       THEN child' = "umount" /\ UNCHANGED child_rc
       ELSE child' = "child_exit" /\ child_rc' = -1
    /\ UNCHANGED <<sem1, sem2, parent, rc, job_mount, returned>>
    /\ NsUnchanged

\* child: rc = umount2(ns_conf->basepath, MNT_DETACH)
ChildUmount(ok) ==
    /\ child = "umount"
    /\ done' = done \cup {"umount"}
    /\ child' = "child_exit"
    /\ child_rc' = IF ok THEN 0 ELSE -1
    /\ UNCHANGED <<sem1, sem2, parent, rc, job_mount, returned>>
    /\ NsUnchanged

\* child_exit: the child lets go of its semaphores; if (!rc) rc =
\* _mount_private_shm(); exit(rc)
ChildExit(shm_ok) ==
    /\ child = "child_exit"
    /\ child' = "exited"
    /\ IF child_rc = 0
       THEN /\ done' = done \cup {"mount_shm"}
            /\ child_rc' = IF shm_ok THEN 0 ELSE -1
       ELSE UNCHANGED <<done, child_rc>>
    /\ UNCHANGED <<sem1, sem2, parent, rc, job_mount, returned>>
    /\ NsUnchanged

\* (a variant of the parent's wait that does not wait)
ParentWait_no_wait ==
    /\ parent = "sem_wait"
    /\ sem1' = IF sem1 > 0 THEN sem1 - 1 ELSE 0
    /\ parent' = "proc_path"
    /\ UNCHANGED <<sem2, child, rc, child_rc, job_mount, done, returned>>
    /\ NsUnchanged

\* parent: sem_wait(sem1) returns 0
ParentWait ==
    /\ parent = "sem_wait"
    /\ sem1 > 0
    /\ sem1' = sem1 - 1
    /\ parent' = "proc_path"
    /\ UNCHANGED <<sem2, child, rc, child_rc, job_mount, done, returned>>
    /\ NsUnchanged

\* parent: sem_wait(sem1) returns -1
ParentWaitFail ==
    /\ parent = "sem_wait"
    /\ parent' = "exit1"
    /\ rc' = -1
    /\ UNCHANGED <<sem1, sem2, child, child_rc, job_mount, done, returned>>
    /\ NsUnchanged

\* parent: snprintf(proc_path, PATH_MAX, "/proc/%u/ns/mnt", cpid)
ParentProcPath(ok) ==
    /\ parent = "proc_path"
    /\ IF ok
       THEN parent' = "mount" /\ UNCHANGED rc
       ELSE parent' = "exit1" /\ rc' = -1
    /\ UNCHANGED <<sem1, sem2, child, child_rc, job_mount, done, returned>>
    /\ NsUnchanged

\* parent: rc = mount(proc_path, ns_holder, NULL, MS_BIND, NULL), after
\* which the holder keeps the namespace; when it fails the child is released
\* before the parent leaves
ParentMount(ok, post_ok) ==
    /\ parent = "mount"
    /\ IF ok
       THEN /\ parent' = "sem_post"
            /\ rc' = 0
            /\ done' = done \cup {"bind_mount", "ns_held"}
            /\ UNCHANGED sem2
       ELSE /\ parent' = "exit1"
            /\ rc' = -1
            /\ done' = done \cup {"bind_mount"}
            /\ sem2' = IF post_ok THEN sem2 + 1 ELSE sem2
    /\ UNCHANGED <<sem1, child, child_rc, job_mount, returned>>
    /\ NsUnchanged

\* parent: sem_post(sem2); rc is still the 0 of the mount when it fails
ParentPost(ok) ==
    /\ parent = "sem_post"
    /\ IF ok
       THEN parent' = "waitpid" /\ sem2' = sem2 + 1
       ELSE parent' = "exit1" /\ UNCHANGED sem2
    /\ UNCHANGED <<sem1, child, rc, child_rc, job_mount, done, returned>>
    /\ NsUnchanged

\* parent: waitpid(cpid, &wstatus, 0) returns cpid; rc = 0
ParentWaitpid ==
    /\ parent = "waitpid"
    /\ child = "exited"
    /\ parent' = "exit1"
    /\ rc' = 0
    /\ UNCHANGED <<sem1, sem2, child, child_rc, job_mount, done, returned>>
    /\ NsUnchanged

\* parent: waitpid returns -1
ParentWaitpidFail ==
    /\ parent = "waitpid"
    /\ parent' = "exit1"
    /\ rc' = -1
    /\ UNCHANGED <<sem1, sem2, child, child_rc, job_mount, done, returned>>
    /\ NsUnchanged

\* exit1: sem_destroy and munmap of both semaphores in the parent
ParentExit1 ==
    /\ parent = "exit1"
    /\ parent' = "exit2"
    /\ UNCHANGED <<sem1, sem2, child, rc, child_rc, job_mount, done, returned>>
    /\ NsUnchanged

\* exit2: if (rc) remove the job mount directory; return rc
ParentExit2(nftw_ok) ==
    /\ parent = "exit2"
    /\ parent' = "returned"
    /\ IF rc = 0
       THEN returned' = <<rc>> /\ UNCHANGED job_mount
       ELSE IF nftw_ok
       THEN returned' = <<rc>> /\ job_mount' = "removed"
       ELSE returned' = <<SLURM_ERROR>> /\ UNCHANGED job_mount
    /\ UNCHANGED <<sem1, sem2, child, rc, child_rc, done>>
    /\ NsUnchanged

\* the steps of the child that do not depend on a signal
ChildStep ==
    \/ \E ok \in BOOLEAN : ChildUnshare(ok)
    \/ \E ok \in BOOLEAN : ChildPost(ok)
    \/ ChildWait
    \/ \E ok \in BOOLEAN : ChildMountTmp(ok)
    \/ \E ok \in BOOLEAN : ChildUmount(ok)
    \/ \E ok \in BOOLEAN : ChildExit(ok)

\* the steps of the parent that do not depend on a signal
ParentStep ==
    \/ \E outcome \in SetupOutcomes : NsSetup(outcome)
    \/ ParentWait
    \/ \E ok \in BOOLEAN : ParentProcPath(ok)
    \/ \E ok \in BOOLEAN, post_ok \in BOOLEAN : ParentMount(ok, post_ok)
    \/ \E ok \in BOOLEAN : ParentPost(ok)
    \/ ParentWaitpid
    \/ ParentExit1
    \/ \E ok \in BOOLEAN : ParentExit2(ok)

NsNext ==
    \/ ChildStep
    \/ ChildWaitFail
    \/ ParentStep
    \/ ParentWaitFail
    \/ ParentWaitpidFail

SpecNs == Init /\ [][NsNext]_vars

\* both processes are scheduled: a step that can be taken is taken; nothing
\* makes a blocked sem_wait or waitpid fail
SpecNsLive == Init /\ [][NsNext]_vars /\ WF_vars(ChildStep) /\ WF_vars(ParentStep)

\* C34: container_p_create terminates on every outcome of its steps: neither
\* the parent nor the child stays in sem_wait forever.
C34_NobodyWaitsForever ==
    /\ [](parent = "sem_wait" => <>(parent # "sem_wait"))
    /\ [](child = "sem_wait" => <>(child # "sem_wait"))

\* unshare failed in the child, which has exited without posting sem1; the
\* parent is in sem_wait(sem1) and nobody is left to post
C34_Witness ==
    /\ parent = "sem_wait"
    /\ sem1 = 0
    /\ child = "exited"
    /\ "unshare" \notin done
    /\ child_rc # 0

\* C35: the parent bind-mounts /proc/<child>/ns/mnt only after the child has
\* completed unshare(CLONE_NEWNS), and the child mounts the private /tmp
\* and detaches the base path only after the parent has attempted the bind
\* mount.
C35_HandshakeOrders ==
    [][/\ "bind_mount" \in done' \ done => "unshare" \in done
       /\ "mount_tmp" \in done' \ done => "bind_mount" \in done
       /\ "umount" \in done' \ done => "bind_mount" \in done]_vars

\* all four steps were taken and the child has exited
C35_Witness ==
    /\ {"unshare", "bind_mount", "mount_tmp", "umount"} \subseteq done
    /\ child = "exited"
    /\ parent = "returned"

\* C36: container_p_create returns 0 for a newly created job directory only
\* if the child completed its namespace setup (private /tmp, base path
\* unmount, private /dev/shm) and exited with 0; after a failure in the child
\* the return is non-zero and the job mount directory is removed.
C36_ZeroOnlyIfChildSucceeded ==
    /\ returned = <<0>> /\ job_mount = "new"
       => /\ child = "exited"
          /\ child_rc = 0
          /\ {"mount_tmp", "umount", "mount_shm"} \subseteq done
    /\ returned # NULL /\ child = "exited" /\ child_rc # 0
       => returned # <<0>>

\* the private /tmp mount failed in the child, which exited with -1; the
\* parent returned 0 and the job mount directory is in place
C36_Witness ==
    /\ returned = <<0>>
    /\ job_mount = "new"
    /\ child = "exited"
    /\ child_rc = -1
    /\ "mount_tmp" \in done
    /\ "umount" \notin done
    /\ "ns_held" \in done

(***************************************************************************)
(* SpecHash: the cache key of signatures with any bytes, in builds where   *)
(* plain char is signed and in builds where it is unsigned.                *)
(***************************************************************************)
MaxSig == 3

\* bytes of a signature: none is the terminating NUL
HashBytes == {1, 65, 127, 128, 255}

HashSigs == UNION {[1..n -> HashBytes] : n \in 1..MaxSig}

\* a credential as the backend's unpack hands it over, with this signature
HashCred(signature) ==
    [ctime |-> 1, expiration |-> 2, jobid |-> 42, het_job_id |-> 0,
     step_id |-> 0, uid |-> 1000, gid |-> 1000, user_name |-> <<117>>,
     gids |-> <<1000>>, nodes |-> <<110>>, signature |-> signature,
     verified |-> TRUE]

HashInit ==
    /\ char_signed \in BOOLEAN
    /\ now = 1
    /\ aborted = FALSE
    /\ g_context = TRUE
    /\ cred_restart_time = 1
    /\ cred_expire = DEFAULT_EXPIRATION_WINDOW
    /\ enable_nss_slurm = FALSE
    /\ enable_send_gids = TRUE
    /\ sbcast_cache_list = [alloc |-> TRUE, recs |-> <<>>]
    /\ credential = NULL
    /\ wire = NULL
    /\ made = NULL
    /\ \E signature \in HashSigs : sbcast_cred = <<HashCred(signature)>>
    /\ swire = NULL
    /\ seeded = FALSE
    /\ slurm_conf = [authinfo |-> NULL, launch_params |-> {}]
    /\ pc = [t \in Threads |-> Idle]
    /\ wrlock = 0
    /\ g_context_lock = 0
    /\ NsInit
    /\ freed = {}
    /\ races = {}
    /\ last = [op |-> "none"]

HashNext == \E block_no \in BlockNos : SbExtract(block_no, 0)

SpecHash == HashInit /\ [][HashNext]_vars

\* signature[i] * 256 + signature[i + 1] summed over i = 0, 2, 4, ..., the
\* bytes being 0..255 and a missing last byte 0
RECURSIVE PairSum(_, _)
PairSum(signature, i) ==
    IF i > Len(signature) THEN 0
    ELSE signature[i] * 256
         + (IF i < Len(signature) THEN signature[i + 1] ELSE 0)
         + PairSum(signature, i + 2)

\* the last call was a block-1 extract that appended the credential's record
HashAdded ==
    /\ last.op = "extract"
    /\ last.block_no = 1
    /\ Len(last.after) = Len(last.before) + 1

\* C37: the cache key _sbcast_cache_hash computes is the sum, modulo 2^32,
\* of the 16-bit big-endian values of the signature's byte pairs, the bytes
\* taken as 0..255 and an unpaired last byte paired with 0.
C37_HashIsUnsignedPairSum ==
    HashAdded =>
        LET sum == PairSum(last.cred.signature, 1)
        IN  last.after[Len(last.after)].value
               = <<sum \div 65536, sum % 65536>>

\* plain char is signed and the signature is the bytes 128, 1: the pair
\* counts as -32768 + 1, and the key is 0xFFFF8001 where the sum of the
\* unsigned pair is 0x00008001
C37_Witness ==
    /\ HashAdded
    /\ char_signed
    /\ last.cred.signature = <<128, 1>>
    /\ PairSum(last.cred.signature, 1) = 32769
    /\ last.after[Len(last.after)].value = <<65535, 32769>>

====
